---- MODULE Spec2Model ----
(***************************************************************************)
(* Contact-harvesting crawler of google-business-scraper (src/main.py):    *)
(* SessionManager, ProxyRotator, EnhancedWebsiteCrawler.fetch_with_retry,  *)
(* EnhancedWebsiteCrawler.extract_emails_and_social (crawl_page) and       *)
(* EnhancedBusinessScraper.retry_failed_websites, as a state machine.      *)
(*                                                                         *)
(* Thread 0 is the main thread; threads 1..max_workers are the workers of  *)
(* the ThreadPoolExecutor of retry_failed_websites.  Every per-call local  *)
(* of the crawler is a function of the thread that runs the call.          *)
(***************************************************************************)
EXTENDS Integers, Sequences, FiniteSets, TLC

(***************************************************************************)
(* Bounds of the model.                                                    *)
(***************************************************************************)
\* max_pages arguments are drawn from 0..MaxPagesArg
MaxPagesArg == 2
\* retries arguments of direct fetch_with_retry calls are drawn from 0..MaxRetriesArg
MaxRetriesArg == 3
\* number of crawl invocations of one run of the sequential crawl specification
MaxCrawls == 3
\* length of the proxy list
MaxProxies == 3
\* number of direct get_proxy calls
MaxProxyCalls == 5
\* number of direct fetch_with_retry calls
MaxFetchCalls == 2
\* number of save_session / load_session calls of the store specification
\* merges of retried data into one record
MaxMerges == 4

MaxStoreOps == 3

\* number of POST /start_scraping requests the dashboard receives
MaxRequests == 3

\* fetch_with_retry(self, url, retries=3, base_delay=2)
DefaultBaseDelay == 2

(***************************************************************************)
(* Program constants.                                                      *)
(***************************************************************************)
\* fetch_with_retry(self, url, retries=3, base_delay=2)
DefaultRetries == 3
\* scored_links[:3]
TopLinks == 3
\* ThreadPoolExecutor(max_workers=3)
max_workers == 3
\* extract_emails_and_social(site, max_pages=3) in retry_failed_websites
RetryMaxPages == 3
\* --max-pages, default=3
DefaultMaxPages == 3

MainThread == 0

\* the threads of the web server that handle requests (app.run: one thread per request)
Handlers == {1, 2}

\* a thread of the web server that handles no request
NoRequest == [pc |-> "idle", query |-> "", response |-> "", started |-> 0]

\* an executor that starts a thread for every submitted call
Workers_per_call == 1..(max_workers + 2)

Workers == 1..max_workers

Threads == {MainThread} \cup Workers

None == "None"

(***************************************************************************)
(* URLs.  A URL is the record of the parts the code looks at: the scheme   *)
(* (abs_link.startswith("http")), the netloc (urlparse(..).netloc) and the *)
(* path.  An href of a page is relative, absolute, a mailto: link, or      *)
(* malformed text on which urljoin/urlparse raise ValueError.              *)
(***************************************************************************)
Netlocs == <<"acme.com", "beta.org">>

\* the paths of the modelled sites, in ascending order of their strings
Paths == <<"/", "/about", "/blog", "/contact", "/help">>

Url(n, p) == [scheme |-> "http", netloc |-> n, path |-> p]

Range(s) == {s[i] : i \in 1..Len(s)}

Min(S) == CHOOSE x \in S : \A y \in S : x <= y

Urls == {Url(n, p) : n \in Range(Netlocs), p \in Range(Paths)}

RootA == Url("acme.com", "/")

RootB == Url("beta.org", "/")

RootUrls == {RootA, RootB}

ContactA == Url("acme.com", "/contact")

BlogA == Url("acme.com", "/blog")

\* no EmailValidator call has been made
NoCall == [op |-> "none"]

\* the value of a URL variable outside a call
NoUrl == [scheme |-> "", netloc |-> "", path |-> ""]

Rel(p) == [kind |-> "rel", netloc |-> "", path |-> p]

Abs(n, p) == [kind |-> "abs", netloc |-> n, path |-> p]

MailTo == [kind |-> "mailto", netloc |-> "", path |-> "info@acme.com"]

BadHref == [kind |-> "bad", netloc |-> "", path |-> "http://[bad"]

\* urljoin(page_url, link) raises ValueError on a malformed link
urljoin_raises(link) == link.kind = "bad"

\* urljoin(page_url, link)
urljoin(page_url, link) ==
    CASE link.kind = "rel" -> [scheme |-> "http", netloc |-> page_url.netloc, path |-> link.path]
      [] link.kind = "abs" -> [scheme |-> "http", netloc |-> link.netloc, path |-> link.path]
      [] OTHER -> [scheme |-> "mailto", netloc |-> "", path |-> link.path]

IndexOf(s, x) == CHOOSE i \in 1..Len(s) : s[i] = x

\* position of a URL in the ascending order of URL strings (tuple comparison of the sort)
UrlRank(u) == IndexOf(Netlocs, u.netloc) * (Len(Paths) + 1) + IndexOf(Paths, u.path)

\* the keywords of score_page_relevance that occur in the lower-cased URL string
UrlKeywords(u) ==
    CASE u.path = "/about" -> {"about"}
      [] u.path = "/contact" -> {"contact"}
      [] u.path = "/help" -> {"help"}
      [] OTHER -> {}

(***************************************************************************)
(* SessionManager                                                          *)
(***************************************************************************)
\* the session file does not exist; a file that exists is <<the pickled record>>
NoFile == <<>>

\* the record load_session returns when the file does not exist
DefaultSession == [completed_urls |-> {}, failed_urls |-> {}, results |-> <<>>]

\* a session file that holds no complete pickle: open(self.session_file, 'wb') has
\* truncated it and pickle.dump has not finished
TruncatedFile == <<[truncated |-> TRUE]>>

\* pickle.load raises (EOFError, UnpicklingError) on such a file, and load_session
\* catches FileNotFoundError only
load_session_raises(file) == file = TruncatedFile

\* SessionManager.load_session, when it returns
load_session(file) == IF file = NoFile THEN DefaultSession ELSE file[1]

\* dict.update(data): every key of data replaces the value stored under it
dict_update(d, data) ==
    [k \in (DOMAIN d) \cup (DOMAIN data) |-> IF k \in DOMAIN data THEN data[k] ELSE d[k]]

\* is_completed that never finds the URL
is_completed_in_never(sd, url) == FALSE

\* SessionManager.is_completed on the record sd
is_completed_in(sd, url) ==
    url \in (IF "completed_urls" \in DOMAIN sd THEN sd["completed_urls"] ELSE {})

(***************************************************************************)
(* ProxyRotator                                                            *)
(***************************************************************************)
ProxyNames == {"p1", "p2", "p3"}

\* the value get_proxy returns with the cursor at idx
get_proxy_result(pool, idx) == IF pool = <<>> THEN None ELSE pool[idx + 1]

\* get_proxy without the advance of the cursor
get_proxy_next_stuck(pool, idx) == idx

\* the cursor is advanced without the modulo
get_proxy_next_unwrapped(pool, idx) == idx + 1

\* the cursor after get_proxy
get_proxy_next(pool, idx) == IF pool = <<>> THEN idx ELSE (idx + 1) % Len(pool)

(***************************************************************************)
(* EmailValidator and SocialMediaExtractor on the candidates of the pages  *)
(***************************************************************************)
\* Strings are sequences of characters.
UpperCase ==
    <<"A", "B", "C", "D", "E", "F", "G", "H", "I", "J", "K", "L", "M",
      "N", "O", "P", "Q", "R", "S", "T", "U", "V", "W", "X", "Y", "Z">>

LowerCase ==
    <<"a", "b", "c", "d", "e", "f", "g", "h", "i", "j", "k", "l", "m",
      "n", "o", "p", "q", "r", "s", "t", "u", "v", "w", "x", "y", "z">>

Digits == {"0", "1", "2", "3", "4", "5", "6", "7", "8", "9"}

Letters == Range(UpperCase) \cup Range(LowerCase)

\* str.lower()
lower(s) ==
    [i \in 1..Len(s) |->
        IF s[i] \in Range(UpperCase) THEN LowerCase[IndexOf(UpperCase, s[i])] ELSE s[i]]

\* the positions at which word occurs in s
occurrences(word, s) ==
    {i \in 1..(Len(s) - Len(word) + 1) : SubSeq(s, i, i + Len(word) - 1) = word}

\* word in s
occurs_in(word, s) == occurrences(word, s) # {}

\* the patterns of EmailValidator: r'.*word.*' and r'word.*'
Anywhere(word) == [kind |-> "anywhere", word |-> word]

Prefix(word) == [kind |-> "prefix", word |-> word]

\* re.match(pattern, s): the pattern is matched at the start of s, and `.` matches
\* every character but the newline
re_match(pattern, s) ==
    IF pattern.kind = "prefix"
    THEN Len(s) >= Len(pattern.word) /\ SubSeq(s, 1, Len(pattern.word)) = pattern.word
    ELSE \E i \in occurrences(pattern.word, s) : \A k \in 1..(i - 1) : s[k] # "\n"

INVALID_PATTERNS ==
    << Anywhere(<<"n", "o", "r", "e", "p", "l", "y">>),
       Anywhere(<<"n", "o", "-", "r", "e", "p", "l", "y">>),
       Anywhere(<<"a", "d", "m", "i", "n">>),
       Anywhere(<<"t", "e", "s", "t">>),
       Anywhere(<<"e", "x", "a", "m", "p", "l", "e">>),
       Anywhere(<<"d", "u", "m", "m", "y">>),
       Anywhere(<<"w", "e", "b", "m", "a", "s", "t", "e", "r">>) >>

\* EMAIL_CATEGORIES, in the order of the dict
EMAIL_CATEGORIES ==
    << [category |-> "info", pattern |-> Prefix(<<"i", "n", "f", "o", "@">>)],
       [category |-> "contact", pattern |-> Prefix(<<"c", "o", "n", "t", "a", "c", "t", "@">>)],
       [category |-> "sales", pattern |-> Prefix(<<"s", "a", "l", "e", "s", "@">>)],
       [category |-> "support", pattern |-> Prefix(<<"s", "u", "p", "p", "o", "r", "t", "@">>)],
       [category |-> "hello", pattern |-> Prefix(<<"h", "e", "l", "l", "o", "@">>)],
       [category |-> "general", pattern |-> Anywhere(<<"@">>)] >>

\* the characters of an atom of the local part
AtomChars == Letters \cup Digits \cup {"-", "_", "+", "%"}

\* the characters of a label of the domain
LabelChars == Letters \cup Digits \cup {"-"}

\* non-empty runs of the allowed characters, separated by single dots
dot_atom(s, allowed) ==
    /\ s # <<>>
    /\ s[1] # "." /\ s[Len(s)] # "."
    /\ \A i \in 1..Len(s) : s[i] = "." \/ s[i] \in allowed
    /\ \A i \in 1..(Len(s) - 1) : ~(s[i] = "." /\ s[i + 1] = ".")

\* validators.email(email): one @ between a dot-atom and a domain of two labels or more
\* whose last label is made of two letters or more
validators_email(s) ==
    /\ Cardinality(occurrences(<<"@">>, s)) = 1
    /\ LET at == CHOOSE i \in 1..Len(s) : s[i] = "@"
           user == SubSeq(s, 1, at - 1)
           domain == SubSeq(s, at + 1, Len(s))
           dots == occurrences(<<".">>, domain)
       IN /\ dot_atom(user, AtomChars)
          /\ dot_atom(domain, LabelChars)
          /\ dots # {}
          /\ \A d \in dots : (\A e \in dots : e <= d) =>
                /\ Len(domain) - d >= 2
                /\ \A k \in (d + 1)..Len(domain) : domain[k] \in Letters

\* validate_email that matches the patterns on the address as it is written
validate_email_cased(email) ==
    /\ validators_email(email)
    /\ \A k \in 1..Len(INVALID_PATTERNS) : ~re_match(INVALID_PATTERNS[k], email)

\* EmailValidator.validate_email
validate_email(email) ==
    /\ validators_email(email)
    /\ \A k \in 1..Len(INVALID_PATTERNS) : ~re_match(INVALID_PATTERNS[k], lower(email))

\* categorize_email that takes the last pattern that matches
categorize_email_last(email) ==
    LET hits == {k \in 1..Len(EMAIL_CATEGORIES) :
                    re_match(EMAIL_CATEGORIES[k].pattern, lower(email))}
    IN IF hits = {} THEN "other"
       ELSE EMAIL_CATEGORIES[CHOOSE k \in hits : \A h \in hits : h <= k].category

\* EmailValidator.categorize_email: the category of the first pattern that matches
\* email.lower(), 'other' when none does
categorize_email(email) ==
    LET hits == {k \in 1..Len(EMAIL_CATEGORIES) :
                    re_match(EMAIL_CATEGORIES[k].pattern, lower(email))}
    IN IF hits = {} THEN "other" ELSE EMAIL_CATEGORIES[Min(hits)].category

\* score_email_confidence that returns the score as it is
score_email_confidence_unclamped(email, context) ==
    5 + (IF occurs_in(<<"c", "o", "n", "t", "a", "c", "t">>, lower(email)) \/ occurs_in(<<"i", "n", "f", "o">>, lower(email)) THEN 3 ELSE 0)
      + (IF occurs_in(<<"s", "a", "l", "e", "s">>, lower(email)) \/ occurs_in(<<"h", "e", "l", "l", "o">>, lower(email)) THEN 2 ELSE 0)
      + (IF occurs_in(<<"c", "o", "n", "t", "a", "c", "t">>, lower(context)) THEN 2 ELSE 0)

\* EmailValidator.score_email_confidence, in tenths
score_email_confidence(email, context) ==
    LET typed == IF occurs_in(<<"c", "o", "n", "t", "a", "c", "t">>, lower(email)) \/ occurs_in(<<"i", "n", "f", "o">>, lower(email)) THEN 3
                 ELSE IF occurs_in(<<"s", "a", "l", "e", "s">>, lower(email)) \/ occurs_in(<<"h", "e", "l", "l", "o">>, lower(email)) THEN 2
                 ELSE 0
        contact_page == IF occurs_in(<<"c", "o", "n", "t", "a", "c", "t">>, lower(context)) THEN 2 ELSE 0
        score == 5 + typed + contact_page
    IN IF score <= 10 THEN score ELSE 10

\* the characters of the candidates found on the pages
Chars(email) ==
    CASE email = "info@acme.com" -> <<"i", "n", "f", "o", "@", "a", "c", "m", "e", ".", "c", "o", "m">>
      [] email = "noreply@acme.com" -> <<"n", "o", "r", "e", "p", "l", "y", "@", "a", "c", "m", "e", ".", "c", "o", "m">>
      [] email = "a@b.co" -> <<"a", "@", "b", ".", "c", "o">>
      [] email = ".x@acme.com" -> <<".", "x", "@", "a", "c", "m", "e", ".", "c", "o", "m">>
      [] email = "Admin@beta.org" -> <<"A", "d", "m", "i", "n", "@", "b", "e", "t", "a", ".", "o", "r", "g">>

Platforms == {"facebook", "instagram", "twitter", "linkedin", "youtube", "tiktok"}

\* a match of a social pattern with https:// put in front when it does not begin
\* with http
with_scheme(m) == IF m.scheme = "" THEN [scheme |-> "https", rest |-> m.rest] ELSE m

\* extract_social_media that takes the last match of a platform
extract_social_media_last(matches) ==
    [p \in {q \in DOMAIN matches : matches[q] # <<>>} |->
        with_scheme(matches[p][Len(matches[p])])]

\* SocialMediaExtractor.extract_social_media: matches[p] is re.findall of the pattern
\* of platform p on the text; of every platform that matches, the first match
extract_social_media(matches) ==
    [p \in {q \in DOMAIN matches : matches[q] # <<>>} |-> with_scheme(matches[p][1])]

(***************************************************************************)
(* The sites the crawler is run on.  A page is what the crawler reads of   *)
(* response.text: the candidates of the e-mail pattern, the matches of     *)
(* every social pattern, and the hrefs in document order.  A page is flaky  *)
(* when a request for it can end otherwise than with HTTP 200.             *)
(***************************************************************************)
EmptyMap == [p \in {} |-> None]

Page(l, e, s) == [links |-> l, emails |-> e, social |-> s, flaky |-> TRUE]

\* two facebook links, the first without a scheme, an instagram link, and no twitter
\* link
FacebookBare ==
    [p \in {"facebook", "instagram", "twitter"} |->
        CASE p = "facebook" -> <<[scheme |-> "", rest |-> "facebook.com/acme"],
                                 [scheme |-> "https", rest |-> "www.facebook.com/acme.shop"]>>
          [] p = "instagram" -> <<[scheme |-> "http", rest |-> "instagram.com/acme"]>>
          [] OTHER -> <<>>]

\* one facebook link and two twitter links
FacebookHttps ==
    [p \in {"facebook", "twitter"} |->
        IF p = "facebook" THEN <<[scheme |-> "https", rest |-> "www.facebook.com/acme.about"]>>
        ELSE <<[scheme |-> "", rest |-> "twitter.com/acme"],
               [scheme |-> "", rest |-> "twitter.com/acme_jobs"]>>]

\* the href lists the root page of acme.com is tried with
RootLinkChoices ==
    { <<>>,
      <<Rel("/contact"), Rel("/blog")>>,
      <<Rel("/blog"), Rel("/contact"), Rel("/about"), Rel("/help"), Rel("/contact")>>,
      <<Abs("beta.org", "/contact"), MailTo, Rel("/"), Rel("/help")>>,
      <<Rel("/about"), BadHref, Rel("/contact")>> }

\* the href lists the /contact page of acme.com is tried with
ContactLinkChoices == { <<>>, <<Rel("/about"), Rel("/"), Rel("/help")>>, <<Rel("/help"), BadHref>> }

\* the root -> /contact (score 3, one valid e-mail), root -> /blog (score 0) site
ScenarioRootLinks == <<Rel("/contact"), Rel("/blog")>>

MakeWeb(rootLinks, contactLinks) ==
    [u \in Urls |->
        CASE u = RootA -> Page(rootLinks, <<"noreply@acme.com">>, FacebookBare)
          [] u = Url("acme.com", "/contact") -> Page(contactLinks, <<"info@acme.com">>, EmptyMap)
          [] u = Url("acme.com", "/about") ->
                Page(<<Rel("/"), Rel("/contact")>>, <<"a@b.co", "info@acme.com">>, FacebookHttps)
          [] u = Url("acme.com", "/blog") -> Page(<<Rel("/about")>>, <<".x@acme.com">>, EmptyMap)
          [] u = Url("acme.com", "/help") -> Page(<<Rel("/contact")>>, <<>>, EmptyMap)
          [] u = RootB -> Page(<<Rel("/blog")>>, <<"Admin@beta.org", "a@b.co">>, EmptyMap)
          [] OTHER -> Page(<<>>, <<>>, EmptyMap)]

Webs == {MakeWeb(r, c) : r \in RootLinkChoices, c \in ContactLinkChoices}

ScenarioWeb == MakeWeb(ScenarioRootLinks, <<>>)

\* the site w with servers that always answer HTTP 200 for the pages other than S
FlakyOnly(w, S) == [u \in Urls |-> [w[u] EXCEPT !.flaky = u \in S]]

(***************************************************************************)
(* State                                                                   *)
(***************************************************************************)
VARIABLES
    web,              \* what every URL serves on HTTP 200
    session_data,     \* SessionManager.session_data
    session_file,     \* the pickle file of SessionManager
    proxies,          \* ProxyRotator.proxies
    current_index,    \* ProxyRotator.current_index
    failed_websites,  \* EnhancedWebsiteCrawler.failed_websites
    pc,               \* position of every thread
    mode,             \* "crawl": fetch_with_retry called by crawl_page; "direct": by itself; "proxy": get_proxy by itself
    root,             \* argument url of extract_emails_and_social
    max_pages,        \* argument max_pages of extract_emails_and_social
    visited,          \* local visited of extract_emails_and_social
    emails,           \* local emails
    social_media,     \* local social_media
    stack,            \* the active crawl_page calls: page_url, depth, links still to take
    fetch_url,        \* argument url of fetch_with_retry
    retries,          \* argument retries of fetch_with_retry
    attempt,          \* loop variable attempt of fetch_with_retry
    proxy,            \* local proxy of get_proxy: self.proxies[self.current_index]
    next_index,       \* get_proxy: the value computed for self.current_index, not yet stored
    response,         \* the value fetch_with_retry returned
    ret,              \* the value extract_emails_and_social returned
    args_max_pages,   \* args.max_pages of the run
    businesses,       \* websites of the listings scrape_google_maps still has to process
    results,          \* results of scrape_google_maps / retry_failed_websites
    phase,            \* position of the main thread in main()
    retry_futures,    \* the futures of retry_failed_websites, in submission order
    task,             \* the future every worker is running
    fetched,          \* history: the URLs fetch_with_retry was called with by the session
    requests,         \* history: attempts (runs of the try block) of the current fetch_with_retry call
    last_outcome,     \* history: how the last attempt ended
    failed_before,    \* history: failed_websites when the fetch_with_retry call began
    marked,           \* history: the roots a crawl saved as completed
    was_marked,       \* history: the root was in marked when the crawl was invoked
    was_completed,    \* history: the entry guard is_completed(url) held, no crawl_page ran
    proxy_calls,      \* history: number of get_proxy calls of setup_browser
    ncalls,           \* history: number of calls the caller made
    slept,            \* history: the failed attempts of the current direct fetch_with_retry call and the time slept after each
    validated,        \* the EmailValidator call under check: its arguments and what it returned
    is_scraping,      \* app.py: the global is_scraping
    scraper_threads,  \* app.py: the threads start_scraping started, each "running" or ended
    handler,          \* app.py: the request every thread of the web server is handling
    nrequests         \* history: number of start_scraping requests received

shared == <<web, session_data, session_file, proxies, current_index, failed_websites>>

crawl_locals == <<root, max_pages, visited, emails, social_media, stack, ret>>

fetch_locals == <<fetch_url, retries, attempt, proxy, next_index, response>>

pipeline == <<args_max_pages, businesses, results, phase, retry_futures, task>>

history == <<fetched, requests, last_outcome, failed_before, marked, was_marked, was_completed,
             proxy_calls, ncalls, slept, validated>>

dashboard == <<is_scraping, scraper_threads, handler, nrequests>>

vars == <<shared, pc, mode, crawl_locals, fetch_locals, pipeline, history, dashboard>>

\* how an attempt ends: HTTP 200, HTTP 429, another status, or an exception raised in
\* the try block (by get_proxy or by requests.get)
Outcomes == {"200", "429", "status", "exception"}

\* a session file left by an earlier run
PriorFile == <<[completed_urls |-> {RootB}, failed_urls |-> {}, results |-> <<>>]>>

EmptyBundle == [emails |-> <<>>, social_media |-> EmptyMap]

\* the state after EnhancedBusinessScraper.__init__ on the site w, with the session
\* file f, the proxy list p, args.max_pages = budget, and the listings b to come
InitRun(w, f, p, b, budget) ==
    /\ web = w
    /\ session_file = f
    /\ session_data = load_session(f)
    /\ proxies = p
    /\ current_index = 0
    /\ failed_websites = <<>>
    /\ pc = [t \in Threads |-> "idle"]
    /\ mode = [t \in Threads |-> "crawl"]
    /\ root = [t \in Threads |-> NoUrl]
    /\ max_pages = [t \in Threads |-> 0]
    /\ visited = [t \in Threads |-> {}]
    /\ emails = [t \in Threads |-> {}]
    /\ social_media = [t \in Threads |-> EmptyMap]
    /\ stack = [t \in Threads |-> <<>>]
    /\ fetch_url = [t \in Threads |-> NoUrl]
    /\ retries = [t \in Threads |-> 0]
    /\ attempt = [t \in Threads |-> 0]
    /\ proxy = [t \in Threads |-> None]
    /\ next_index = [t \in Threads |-> 0]
    /\ response = [t \in Threads |-> None]
    /\ ret = [t \in Threads |-> EmptyBundle]
    /\ args_max_pages = budget
    /\ businesses = b
    /\ results = <<>>
    /\ phase = "scrape"
    /\ retry_futures = <<>>
    /\ task = [t \in Threads |-> 0]
    /\ fetched = [t \in Threads |-> <<>>]
    /\ requests = [t \in Threads |-> 0]
    /\ last_outcome = [t \in Threads |-> None]
    /\ failed_before = [t \in Threads |-> <<>>]
    /\ marked = {}
    /\ was_marked = [t \in Threads |-> FALSE]
    /\ was_completed = [t \in Threads |-> FALSE]
    /\ proxy_calls = 0
    /\ ncalls = 0
    /\ slept = [t \in Threads |-> <<>>]
    /\ validated = NoCall
    /\ is_scraping = FALSE
    /\ scraper_threads = <<>>
    /\ handler = [h \in Handlers |-> NoRequest]
    /\ nrequests = 0

InitWith(w, f, p) == InitRun(w, f, p, <<>>, DefaultMaxPages)

(***************************************************************************)
(* SessionManager.save_session, called by itself                           *)
(***************************************************************************)
\* SessionManager.is_completed
is_completed(url) == is_completed_in(session_data, url)

\* session_data after save_session(data)
save_session(sd, data) == dict_update(sd, data)

\* the partial updates save_session is called with
StoreUrls == RootUrls \cup {Url("acme.com", "/contact")}

SaveInputs ==
    {[completed_urls |-> c] : c \in SUBSET StoreUrls}
    \cup {[failed_urls |-> f] : f \in SUBSET RootUrls}
    \cup {[completed_urls |-> c, results |-> r] : c \in SUBSET RootUrls, r \in {<<>>, <<RootA>>}}

\* a save_session(data) call
StoreSave(data) ==
    /\ pc[MainThread] = "idle"
    /\ ncalls < MaxStoreOps
    /\ session_data' = save_session(session_data, data)
    /\ session_file' = <<session_data'>>
    /\ ncalls' = ncalls + 1
    /\ UNCHANGED <<web, proxies, current_index, failed_websites, pc, mode, crawl_locals,
                   fetch_locals, pipeline, fetched, requests, slept, last_outcome, failed_before,
                   marked, was_marked, was_completed, proxy_calls, validated, dashboard>>

\* the process is killed inside save_session, after open(self.session_file, 'wb') and
\* before pickle.dump has written the record
StoreKilled(data) ==
    /\ pc[MainThread] = "idle"
    /\ ncalls < MaxStoreOps
    /\ session_data' = save_session(session_data, data)
    /\ session_file' = TruncatedFile
    /\ pc' = [pc EXCEPT ![MainThread] = "killed"]
    /\ ncalls' = ncalls + 1
    /\ UNCHANGED <<web, proxies, current_index, failed_websites, mode, crawl_locals,
                   fetch_locals, pipeline, fetched, requests, slept, last_outcome, failed_before,
                   marked, was_marked, was_completed, proxy_calls, validated, dashboard>>

\* the next run of the program: SessionManager.__init__ reads the file again, and the
\* exception load_session does not catch ends the run
StoreLoad ==
    /\ pc[MainThread] \in {"idle", "killed"}
    /\ ncalls < MaxStoreOps
    /\ IF load_session_raises(session_file)
       THEN /\ pc' = [pc EXCEPT ![MainThread] = "raised"]
            /\ UNCHANGED session_data
       ELSE /\ pc' = [pc EXCEPT ![MainThread] = "idle"]
            /\ session_data' = load_session(session_file)
    /\ ncalls' = ncalls + 1
    /\ UNCHANGED <<web, session_file, proxies, current_index, failed_websites, mode,
                   crawl_locals, fetch_locals, pipeline, fetched, requests, slept, last_outcome,
                   failed_before, marked, was_marked, was_completed, proxy_calls, validated, dashboard>>

InitStore == \E f \in {NoFile, PriorFile} : InitWith(MakeWeb(<<>>, <<>>), f, <<>>)

NextStore ==
    \/ \E data \in SaveInputs : StoreSave(data)
    \/ \E data \in SaveInputs : StoreKilled(data)
    \/ StoreLoad

SpecStore == InitStore /\ [][NextStore]_vars

(***************************************************************************)
(* ProxyRotator.get_proxy, called by itself (setup_browser)                *)
(***************************************************************************)
RECURSIVE SeqsUpTo(_, _)
\* the sequences over S of length at most n
SeqsUpTo(S, n) ==
    IF n = 0 THEN {<<>>}
    ELSE LET shorter == SeqsUpTo(S, n - 1)
         IN shorter \cup {Append(s, x) : s \in {q \in shorter : Len(q) = n - 1}, x \in S}

ProxyLists == SeqsUpTo(ProxyNames, MaxProxies)

\* a get_proxy() call of thread t
GetProxyCall(t) ==
    /\ pc[t] = "idle"
    /\ proxy_calls < MaxProxyCalls
    /\ proxy' = [proxy EXCEPT ![t] = get_proxy_result(proxies, current_index)]
    /\ current_index' = get_proxy_next(proxies, current_index)
    /\ proxy_calls' = proxy_calls + 1
    /\ UNCHANGED <<validated, web, session_data, session_file, proxies, failed_websites, pc, mode,
                   crawl_locals, fetch_url, retries, attempt, next_index, response, pipeline,
                   fetched, requests, slept, last_outcome, failed_before, marked, was_marked,
                   was_completed, ncalls, dashboard>>

InitProxy == \E p \in ProxyLists : InitWith(MakeWeb(<<>>, <<>>), NoFile, p)

NextProxy == GetProxyCall(MainThread)

SpecProxy == InitProxy /\ [][NextProxy]_vars

(***************************************************************************)
(* EnhancedWebsiteCrawler.fetch_with_retry                                 *)
(***************************************************************************)
\* range(1, retries): the last attempt is never made
more_attempts_short(a, r) == a < r

\* for attempt in range(1, retries + 1)
more_attempts(a, r) == a <= r

\* the failure is returned without being recorded
record_failure_dropped(fw, url) == fw

\* self.failed_websites.append(url)
record_failure(fw, url) == Append(fw, url)

\* an exception that is not caught in crawl_page: it ends every call up to the root one
pc_after_return_unwinds(t) == "save"

\* the return of crawl_page: the caller goes on with its links, and the caller of the
\* root call saves the session
pc_after_return(t) == IF Len(stack[t]) = 1 THEN "save" ELSE "links"

\* a return that leaves the call on the stack
pop_kept(t) == stack[t]

\* the stack after the return of the innermost crawl_page call
pop(t) == SubSeq(stack[t], 1, Len(stack[t]) - 1)

\* the call fetch_with_retry(url, retries) of thread t, by the caller m
fetch_begin(t, m, url, r) ==
    /\ mode' = [mode EXCEPT ![t] = m]
    /\ fetch_url' = [fetch_url EXCEPT ![t] = url]
    /\ retries' = [retries EXCEPT ![t] = r]
    /\ attempt' = [attempt EXCEPT ![t] = 1]
    /\ requests' = [requests EXCEPT ![t] = 0]
    /\ slept' = [slept EXCEPT ![t] = <<>>]
    /\ last_outcome' = [last_outcome EXCEPT ![t] = None]
    /\ failed_before' = [failed_before EXCEPT ![t] = failed_websites]

\* the locals and the history of a fetch_with_retry call that returned to crawl_page are
\* gone; those of a direct call stay for its caller
fetch_end(t, a, n, o) ==
    IF mode[t] = "direct"
    THEN /\ attempt' = [attempt EXCEPT ![t] = a]
         /\ requests' = [requests EXCEPT ![t] = n]
         /\ last_outcome' = [last_outcome EXCEPT ![t] = o]
         /\ UNCHANGED <<proxy, failed_before, slept>>
    ELSE /\ attempt' = [attempt EXCEPT ![t] = 0]
         /\ requests' = [requests EXCEPT ![t] = 0]
         /\ last_outcome' = [last_outcome EXCEPT ![t] = None]
         /\ proxy' = [proxy EXCEPT ![t] = None]
         /\ failed_before' = [failed_before EXCEPT ![t] = <<>>]
         /\ UNCHANGED slept

\* head of the loop: the next attempt begins with get_proxy(), which returns None on an
\* empty list and reads proxy = self.proxies[self.current_index] otherwise; after the
\* last attempt the URL is appended to failed_websites and None is returned (to
\* crawl_page, which returns on it)
FetchLoop(t) ==
    /\ pc[t] = "fetch"
    /\ IF more_attempts(attempt[t], retries[t])
       THEN /\ proxy' = [proxy EXCEPT ![t] = get_proxy_result(proxies, current_index)]
            /\ pc' = [pc EXCEPT ![t] = IF proxies = <<>> THEN "request" ELSE "get_proxy"]
            /\ UNCHANGED <<failed_websites, response, stack, attempt, requests, slept, last_outcome,
                           failed_before>>
       ELSE /\ failed_websites' = record_failure(failed_websites, fetch_url[t])
            /\ response' = [response EXCEPT ![t] = None]
            /\ fetch_end(t, attempt[t], requests[t], last_outcome[t])
            /\ IF mode[t] = "direct"
               THEN /\ pc' = [pc EXCEPT ![t] = "fetch_done"]
                    /\ UNCHANGED stack
               ELSE /\ pc' = [pc EXCEPT ![t] = pc_after_return(t)]
                    /\ stack' = [stack EXCEPT ![t] = pop(t)]
    /\ UNCHANGED <<web, session_data, session_file, proxies, current_index, mode, root,
                   max_pages, visited, emails, social_media, ret, fetch_url, retries,
                   next_index, pipeline, fetched, marked, was_marked, was_completed,
                   proxy_calls, validated, ncalls, dashboard>>

\* get_proxy, right side of self.current_index = (self.current_index + 1) % len(self.proxies):
\* the cursor is read and the new value computed
GetProxyLoad(t) ==
    /\ pc[t] = "get_proxy"
    /\ next_index' = [next_index EXCEPT ![t] = get_proxy_next(proxies, current_index)]
    /\ pc' = [pc EXCEPT ![t] = "get_proxy_store"]
    /\ UNCHANGED <<shared, mode, crawl_locals, fetch_url, retries, attempt, proxy, response,
                   pipeline, history, dashboard>>

\* get_proxy, the assignment to self.current_index, and return proxy
GetProxyStore(t) ==
    /\ pc[t] = "get_proxy_store"
    /\ current_index' = next_index[t]
    /\ next_index' = [next_index EXCEPT ![t] = 0]
    /\ pc' = [pc EXCEPT ![t] = IF mode[t] = "proxy" THEN "idle" ELSE "request"]
    /\ UNCHANGED <<web, session_data, session_file, proxies, failed_websites, mode,
                   crawl_locals, fetch_url, retries, attempt, proxy, response, pipeline,
                   history, dashboard>>

\* random.uniform(0, 1), in tenths of a second
Jitters == {0, 5, 9}

\* time.sleep(base_delay * attempt * 2) after HTTP 429, in tenths of a second
rate_limit_delay(base_delay, a) == 10 * base_delay * a * 2

\* delay = base_delay * (2 ** (attempt - 1)) + random.uniform(0, 1), in tenths of a second
backoff_delay(base_delay, a, jitter) == 10 * base_delay * (2 ^ (a - 1)) + jitter

\* the time fetch_with_retry sleeps after attempt a of r ended with `outcome`, in tenths
\* of a second: HTTP 429 sleeps and continues; another status has no branch and no
\* sleep; an exception sleeps when attempt < retries
time_slept(outcome, base_delay, a, r, jitter) ==
    CASE outcome = "429" -> rate_limit_delay(base_delay, a)
      [] outcome = "exception" /\ a < r -> backoff_delay(base_delay, a, jitter)
      [] OTHER -> 0

\* a failed attempt of a call and the time slept after it
Failed(a, outcome, delay) == [attempt |-> a, outcome |-> outcome, delay |-> delay]

\* the position after an attempt ended with `outcome`: HTTP 200 returns the response;
\* HTTP 429 sleeps and continues; another status falls through to the next attempt; an
\* exception is logged, sleeps when attempt < retries, and the loop goes on
pc_after_request(t, outcome) ==
    IF outcome = "200"
    THEN (IF mode[t] = "direct" THEN "fetch_done" ELSE "process")
    ELSE "fetch"

\* the try block of one attempt, requests.get(url, ...), and what fetch_with_retry does
\* with its outcome
Request(t, outcome) ==
    /\ pc[t] = "request"
    /\ outcome = "200" \/ web[fetch_url[t]].flaky
    /\ pc' = [pc EXCEPT ![t] = pc_after_request(t, outcome)]
    /\ IF outcome = "200"
       THEN /\ response' = [response EXCEPT ![t] = "200"]
            /\ fetch_end(t, attempt[t], requests[t] + 1, outcome)
       ELSE /\ attempt' = [attempt EXCEPT ![t] = @ + 1]
            /\ requests' = [requests EXCEPT ![t] = @ + 1]
            /\ last_outcome' = [last_outcome EXCEPT ![t] = outcome]
            /\ \E jitter \in Jitters :
                  slept' = [slept EXCEPT ![t] =
                              IF mode[t] = "direct"
                              THEN Append(@, Failed(attempt[t], outcome,
                                                    time_slept(outcome, DefaultBaseDelay,
                                                               attempt[t], retries[t], jitter)))
                              ELSE @]
            /\ UNCHANGED <<response, proxy, failed_before>>
    /\ UNCHANGED <<shared, mode, crawl_locals, fetch_url, retries, next_index, pipeline,
                   fetched, marked, was_marked, was_completed, proxy_calls, validated, ncalls, dashboard>>

\* a fetch_with_retry(url, retries=r) call of thread t
FetchCall(t, url, r) ==
    /\ pc[t] \in {"idle", "fetch_done"}
    /\ ncalls < MaxFetchCalls
    /\ ncalls' = ncalls + 1
    /\ fetch_begin(t, "direct", url, r)
    /\ pc' = [pc EXCEPT ![t] = "fetch"]
    /\ UNCHANGED <<shared, crawl_locals, proxy, next_index, response, pipeline, fetched,
                   marked, was_marked, was_completed, proxy_calls, validated, dashboard>>

InitFetch == \E p \in {<<>>, <<"p1", "p2">>} : InitWith(MakeWeb(<<>>, <<>>), NoFile, p)

NextFetch ==
    \/ \E url \in RootUrls, r \in 0..MaxRetriesArg : FetchCall(MainThread, url, r)
    \/ FetchLoop(MainThread)
    \/ GetProxyLoad(MainThread)
    \/ GetProxyStore(MainThread)
    \/ \E outcome \in Outcomes : Request(MainThread, outcome)

SpecFetch == InitFetch /\ [][NextFetch]_vars

(***************************************************************************)
(* ProxyRotator.get_proxy, called by several threads at a time             *)
(***************************************************************************)
\* a get_proxy() call of thread t begins: None is returned on an empty list, and
\* proxy = self.proxies[self.current_index] is read otherwise
GetProxyBegin(t) ==
    /\ pc[t] = "idle"
    /\ proxy_calls < MaxProxyCalls
    /\ proxy_calls' = proxy_calls + 1
    /\ mode' = [mode EXCEPT ![t] = "proxy"]
    /\ proxy' = [proxy EXCEPT ![t] = get_proxy_result(proxies, current_index)]
    /\ pc' = [pc EXCEPT ![t] = IF proxies = <<>> THEN "idle" ELSE "get_proxy"]
    /\ UNCHANGED <<shared, crawl_locals, fetch_url, retries, attempt, next_index, response,
                   pipeline, fetched, requests, slept, last_outcome, failed_before, marked,
                   was_marked, was_completed, validated, ncalls, dashboard>>

InitProxyRace == \E p \in ProxyLists : InitWith(MakeWeb(<<>>, <<>>), NoFile, p)

NextProxyRace ==
    \E t \in Workers :
        \/ GetProxyBegin(t)
        \/ GetProxyLoad(t)
        \/ GetProxyStore(t)

SpecProxyRace == InitProxyRace /\ [][NextProxyRace]_vars

(***************************************************************************)
(* EnhancedWebsiteCrawler.extract_emails_and_social                        *)
(***************************************************************************)
\* score_page_relevance(page_url, content): url_words are the keywords in the URL and
\* content_words the phrases in the content
score_page_relevance(url_words, content_words) ==
    (IF url_words \cap {"contact", "about", "team"} # {} THEN 3 ELSE 0)
    + (IF url_words \cap {"support", "help", "reach"} # {} THEN 2 ELSE 0)
    + (IF content_words \cap {"contact us", "get in touch"} # {} THEN 2 ELSE 0)
    + (IF "@" \in content_words THEN 1 ELSE 0)

\* the condition without the comparison of the netloc with the domain of the root
eligible_any_domain(domain, abs_link, seen) ==
    /\ abs_link.scheme = "http"
    /\ abs_link \notin seen

\* the condition of the scored_links loop on abs_link
eligible(domain, abs_link, seen) ==
    /\ abs_link.netloc = domain
    /\ abs_link.scheme = "http"
    /\ abs_link \notin seen

\* scored_links before the sort: (score, abs_link) of every eligible href, in document
\* order; the content handed to score_page_relevance is ""
scored_links(domain, page_url, links, seen) ==
    LET joined == [i \in 1..Len(links) |-> urljoin(page_url, links[i])]
        kept == SelectSeq(joined, LAMBDA l : eligible(domain, l, seen))
    IN [i \in 1..Len(kept) |->
            [score |-> score_page_relevance(UrlKeywords(kept[i]), {}), link |-> kept[i]]]

\* a > b as the tuples (score, abs_link)
tuple_greater(a, b) ==
    \/ a.score > b.score
    \/ a.score = b.score /\ UrlRank(a.link) > UrlRank(b.link)

\* scored_links.sort(reverse=True): an entry comes after the entries that are greater
\* and after the equal entries that were before it in the list
sort_reverse(seq) ==
    LET place(i) == 1 + Cardinality({k \in 1..Len(seq) :
                                       \/ tuple_greater(seq[k], seq[i])
                                       \/ seq[k] = seq[i] /\ k < i})
    IN [p \in 1..Len(seq) |-> seq[CHOOSE i \in 1..Len(seq) : place(i) = p]]

\* scored_links without the cut
top_links_uncut(seq) == seq

\* scored_links[:3]
top_links(seq) == SubSeq(seq, 1, IF Len(seq) < TopLinks THEN Len(seq) ELSE TopLinks)

\* if score >= 0: links of score 0 are followed too
should_follow_any(score) == score >= 0

\* if score > 0
should_follow(score) == score > 0

\* if depth > max_pages or page_url in visited: return
crawl_page_returns_late(depth, budget, page_url, seen) == depth > budget \/ page_url \in seen

\* if depth >= max_pages: return, without the look at visited
crawl_page_returns_unchecked(depth, budget, page_url, seen) == depth >= budget

\* if depth >= max_pages or page_url in visited: return
crawl_page_returns(depth, budget, page_url, seen) == depth >= budget \/ page_url \in seen

Frame(u, d) == [page_url |-> u, depth |-> d, todo |-> <<>>]

Top(t) == stack[t][Len(stack[t])]

\* the orders list(emails) can give the set
ListsOf(S) == {q \in [1..Cardinality(S) -> S] : Range(q) = S}

\* the call extract_emails_and_social(url, max_pages=budget) of thread t: a completed
\* url returns [], {} at once, any other begins crawl_page(url)
crawl_begin(t, url, budget) ==
    /\ root' = [root EXCEPT ![t] = url]
    /\ max_pages' = [max_pages EXCEPT ![t] = budget]
    /\ visited' = [visited EXCEPT ![t] = {}]
    /\ emails' = [emails EXCEPT ![t] = {}]
    /\ social_media' = [social_media EXCEPT ![t] = EmptyMap]
    /\ fetched' = [fetched EXCEPT ![t] = <<>>]
    /\ was_marked' = [was_marked EXCEPT ![t] = url \in marked]
    /\ was_completed' = [was_completed EXCEPT ![t] = is_completed(url)]
    /\ IF is_completed(url)
       THEN /\ ret' = [ret EXCEPT ![t] = EmptyBundle]
            /\ stack' = [stack EXCEPT ![t] = <<>>]
            /\ pc' = [pc EXCEPT ![t] = "done"]
       ELSE /\ stack' = [stack EXCEPT ![t] = <<Frame(url, 0)>>]
            /\ pc' = [pc EXCEPT ![t] = "crawl_page"]
            /\ UNCHANGED ret

\* entry of crawl_page(page_url, depth): return, or visited.add(page_url) and
\* self.fetch_with_retry(page_url)
CrawlPage(t) ==
    /\ pc[t] = "crawl_page"
    /\ IF crawl_page_returns(Top(t).depth, max_pages[t], Top(t).page_url, visited[t])
       THEN /\ pc' = [pc EXCEPT ![t] = pc_after_return(t)]
            /\ stack' = [stack EXCEPT ![t] = pop(t)]
            /\ UNCHANGED <<visited, fetched, mode, fetch_url, retries, attempt, requests, slept,
                           last_outcome, failed_before>>
       ELSE /\ visited' = [visited EXCEPT ![t] = @ \cup {Top(t).page_url}]
            /\ fetched' = [fetched EXCEPT ![t] = Append(@, Top(t).page_url)]
            /\ fetch_begin(t, "crawl", Top(t).page_url, DefaultRetries)
            /\ pc' = [pc EXCEPT ![t] = "fetch"]
            /\ UNCHANGED stack
    /\ UNCHANGED <<shared, root, max_pages, emails, social_media, ret, proxy, next_index,
                   response, pipeline, marked, was_marked, was_completed, proxy_calls, validated, ncalls, dashboard>>

\* the try block of crawl_page on the fetched page: the validated e-mails and the social
\* links are merged, the links are scored, sorted and cut; a ValueError of urljoin is
\* caught, logged, and crawl_page returns
ProcessPage(t) ==
    /\ pc[t] = "process"
    /\ LET page == web[Top(t).page_url]
           validated_emails == {e \in Range(page.emails) : validate_email(Chars(e))}
           page_social == extract_social_media(page.social)
           raises == \E i \in 1..Len(page.links) : urljoin_raises(page.links[i])
           scored == scored_links(root[t].netloc, Top(t).page_url, page.links, visited[t])
       IN /\ emails' = [emails EXCEPT ![t] = @ \cup validated_emails]
          /\ social_media' = [social_media EXCEPT ![t] = dict_update(@, page_social)]
          /\ IF raises
             THEN /\ pc' = [pc EXCEPT ![t] = pc_after_return(t)]
                  /\ stack' = [stack EXCEPT ![t] = pop(t)]
             ELSE /\ pc' = [pc EXCEPT ![t] = "links"]
                  /\ stack' = [stack EXCEPT ![t][Len(stack[t])].todo =
                                    top_links(sort_reverse(scored))]
    /\ UNCHANGED <<shared, mode, root, max_pages, visited, ret, fetch_locals, pipeline,
                   history, dashboard>>

\* for score, link in scored_links[:3]: if score > 0: crawl_page(link, depth + 1)
Links(t) ==
    /\ pc[t] = "links"
    /\ IF Top(t).todo = <<>>
       THEN /\ pc' = [pc EXCEPT ![t] = pc_after_return(t)]
            /\ stack' = [stack EXCEPT ![t] = pop(t)]
       ELSE LET next == Head(Top(t).todo)
                rest == [stack[t] EXCEPT ![Len(stack[t])].todo = Tail(@)]
            IN IF should_follow(next.score)
               THEN /\ stack' = [stack EXCEPT ![t] =
                                    Append(rest, Frame(next.link, Top(t).depth + 1))]
                    /\ pc' = [pc EXCEPT ![t] = "crawl_page"]
               ELSE /\ stack' = [stack EXCEPT ![t] = rest]
                    /\ UNCHANGED pc
    /\ UNCHANGED <<shared, mode, root, max_pages, visited, emails, social_media, ret,
                   fetch_locals, pipeline, history, dashboard>>

\* after crawl_page(url): save_session({"completed_urls": {url}}), its first statement
\* self.session_data.update(data)
SaveUpdate(t) ==
    /\ pc[t] = "save"
    /\ session_data' = save_session(session_data, [completed_urls |-> {root[t]}])
    /\ marked' = marked \cup {root[t]}
    /\ pc' = [pc EXCEPT ![t] = "dump"]
    /\ UNCHANGED <<web, session_file, proxies, current_index, failed_websites, mode,
                   crawl_locals, fetch_locals, pipeline, fetched, requests, slept, last_outcome,
                   failed_before, was_marked, was_completed, proxy_calls, validated, ncalls, dashboard>>

\* save_session writes self.session_data, as it is by now, to the session file, and
\* extract_emails_and_social returns list(emails), social_media
SaveAndReturn(t) ==
    /\ pc[t] = "dump"
    /\ session_file' = <<session_data>>
    /\ \E order \in ListsOf(emails[t]) :
          ret' = [ret EXCEPT ![t] = [emails |-> order, social_media |-> social_media[t]]]
    /\ pc' = [pc EXCEPT ![t] = "done"]
    /\ UNCHANGED <<web, session_data, proxies, current_index, failed_websites, mode, root,
                   max_pages, visited, emails, social_media, stack, fetch_locals, pipeline,
                   history, dashboard>>

\* the steps of a crawl of thread t
CrawlStep(t) ==
    \/ CrawlPage(t)
    \/ FetchLoop(t)
    \/ GetProxyLoad(t)
    \/ GetProxyStore(t)
    \/ \E outcome \in Outcomes : Request(t, outcome)
    \/ ProcessPage(t)
    \/ Links(t)
    \/ SaveUpdate(t)
    \/ SaveAndReturn(t)

\* an extract_emails_and_social(url, max_pages=budget) call of thread t
CrawlCall(t, url, budget) ==
    /\ pc[t] = "idle"
    /\ ncalls' = ncalls + 1
    /\ crawl_begin(t, url, budget)
    /\ UNCHANGED <<shared, mode, fetch_locals, pipeline, requests, slept, last_outcome,
                   failed_before, marked, proxy_calls, validated, dashboard>>

\* the caller takes the returned value and goes on to its next call
CrawlReturn(t) ==
    /\ pc[t] = "done"
    /\ ncalls < MaxCrawls
    /\ pc' = [pc EXCEPT ![t] = "idle"]
    /\ UNCHANGED <<shared, mode, crawl_locals, fetch_locals, pipeline, history, dashboard>>

\* one crawl of one site, for every modelled site
InitCrawl ==
    \E w \in Webs, f \in {NoFile, PriorFile}, p \in {<<>>, <<"p1", "p2">>} : InitWith(w, f, p)

NextCrawl ==
    \/ \E url \in RootUrls, budget \in 0..MaxPagesArg : CrawlCall(MainThread, url, budget)
    \/ CrawlStep(MainThread)

SpecCrawl == InitCrawl /\ [][NextCrawl]_vars

\* the thread of the crawl goes on as long as it has a step to take: the calls it waits
\* for end, requests.get by its timeout of 15 seconds at the latest
SpecCrawlLive == SpecCrawl /\ WF_vars(NextCrawl)

\* a sequence of crawls of one run of the program
InitSession == \E f \in {NoFile, PriorFile} : InitWith(ScenarioWeb, f, <<"p1", "p2">>)

NextSession ==
    \/ \E url \in RootUrls, budget \in 0..MaxPagesArg : CrawlCall(MainThread, url, budget)
    \/ CrawlStep(MainThread)
    \/ CrawlReturn(MainThread)

SpecSession == InitSession /\ [][NextSession]_vars

(***************************************************************************)
(* main(): scrape_google_maps, then retry_failed_websites                  *)
(***************************************************************************)
\* the BusinessData of a listing whose website was crawled; confidence_score is in
\* tenths
BusinessData(website, bundle) ==
    LET found == bundle.emails # <<>> \/ bundle.social_media # EmptyMap
    IN [website |-> website,
        emails |-> bundle.emails,
        social_media |-> bundle.social_media,
        status |-> IF found THEN "Data extracted" ELSE "No contact info found",
        confidence_score |-> IF found THEN 8 ELSE 4]

\* scrape_google_maps comes to a listing with a website and calls
\* extract_emails_and_social(website, max_pages=self.args.max_pages)
ScrapeBusiness ==
    /\ phase = "scrape"
    /\ pc[MainThread] = "idle"
    /\ businesses # <<>>
    /\ crawl_begin(MainThread, Head(businesses), args_max_pages)
    /\ UNCHANGED <<shared, mode, fetch_locals, pipeline, requests, slept, last_outcome,
                   failed_before, marked, proxy_calls, validated, ncalls, dashboard>>

\* the crawl returned: results.append(business)
ScrapeAppend ==
    /\ phase = "scrape"
    /\ pc[MainThread] = "done"
    /\ results' = Append(results, BusinessData(root[MainThread], ret[MainThread]))
    /\ businesses' = Tail(businesses)
    /\ pc' = [pc EXCEPT ![MainThread] = "idle"]
    /\ UNCHANGED <<shared, mode, crawl_locals, fetch_locals, args_max_pages, phase,
                   retry_futures, task, history, dashboard>>

\* a future of retry_failed_websites; fetched is the history of the session that ran it
Future(site) == [site |-> site, state |-> "pending", result |-> EmptyBundle, fetched |-> <<>>]

\* the loop over the list itself: for site in self.website_crawler.failed_websites
retry_sites_list(failed) == {failed}

\* for site in set(self.website_crawler.failed_websites): the orders in which the set
\* of the failed URLs can be iterated
retry_sites(failed) == ListsOf(Range(failed))

\* scrape_google_maps returned with failed_websites non-empty: retry_failed_websites
\* submits one extract_emails_and_social(site, max_pages=3) per site of
\* set(failed_websites); order is the order in which the set is iterated
RetrySubmit(order) ==
    /\ phase = "scrape"
    /\ pc[MainThread] = "idle"
    /\ businesses = <<>>
    /\ failed_websites # <<>>
    /\ order \in retry_sites(failed_websites)
    /\ retry_futures' = [i \in 1..Len(order) |-> Future(order[i])]
    /\ phase' = "collect"
    /\ task' = [task EXCEPT ![MainThread] = 1]
    /\ UNCHANGED <<shared, pc, mode, crawl_locals, fetch_locals, args_max_pages, businesses,
                   results, history, dashboard>>

\* scrape_google_maps returned with failed_websites empty: nothing is retried
NoRetry ==
    /\ phase = "scrape"
    /\ pc[MainThread] = "idle"
    /\ businesses = <<>>
    /\ failed_websites = <<>>
    /\ phase' = "end"
    /\ UNCHANGED <<shared, pc, mode, crawl_locals, fetch_locals, args_max_pages, businesses,
                   results, retry_futures, task, history, dashboard>>

Pending == {i \in 1..Len(retry_futures) : retry_futures[i].state = "pending"}

\* an idle worker of the executor (the workers being alike, the least one) takes the
\* oldest pending future and runs extract_emails_and_social(site, max_pages=3)
WorkerTake(w) ==
    /\ pc[w] = "idle"
    /\ w = Min({v \in Workers : pc[v] = "idle"})
    /\ Pending # {}
    /\ LET i == Min(Pending)
       IN /\ retry_futures' = [retry_futures EXCEPT ![i].state = "running"]
          /\ task' = [task EXCEPT ![w] = i]
          /\ crawl_begin(w, retry_futures[i].site, RetryMaxPages)
    /\ UNCHANGED <<shared, mode, fetch_locals, args_max_pages, businesses, results, phase,
                   requests, slept, last_outcome, failed_before, marked, proxy_calls, validated, ncalls, dashboard>>

\* the call of a worker returned: its future is done and holds the returned value, and
\* the locals of the call are gone
WorkerDone(w) ==
    /\ pc[w] = "done"
    /\ retry_futures' = [retry_futures EXCEPT ![task[w]] =
                            [@ EXCEPT !.state = "done", !.result = ret[w],
                                      !.fetched = fetched[w]]]
    /\ task' = [task EXCEPT ![w] = 0]
    /\ pc' = [pc EXCEPT ![w] = "idle"]
    /\ root' = [root EXCEPT ![w] = NoUrl]
    /\ max_pages' = [max_pages EXCEPT ![w] = 0]
    /\ visited' = [visited EXCEPT ![w] = {}]
    /\ emails' = [emails EXCEPT ![w] = {}]
    /\ social_media' = [social_media EXCEPT ![w] = EmptyMap]
    /\ ret' = [ret EXCEPT ![w] = EmptyBundle]
    /\ response' = [response EXCEPT ![w] = None]
    /\ fetch_url' = [fetch_url EXCEPT ![w] = NoUrl]
    /\ retries' = [retries EXCEPT ![w] = 0]
    /\ fetched' = [fetched EXCEPT ![w] = <<>>]
    /\ was_marked' = [was_marked EXCEPT ![w] = FALSE]
    /\ was_completed' = [was_completed EXCEPT ![w] = FALSE]
    /\ UNCHANGED <<shared, mode, stack, attempt, proxy, next_index, args_max_pages,
                   businesses, results, phase, requests, slept, last_outcome, failed_before,
                   marked, proxy_calls, validated, ncalls, dashboard>>

\* the first result, whatever its website
matching_result_first(rs, site) == IF rs = <<>> THEN 0 ELSE 1

\* the first result whose website is site, 0 when there is none
matching_result(rs, site) ==
    IF \E k \in 1..Len(rs) : rs[k].website = site
    THEN Min({k \in 1..Len(rs) : rs[k].website = site})
    ELSE 0

\* min(result.confidence_score + 0.3, 1.0), in tenths
raised_confidence(c) == IF c + 3 < 10 THEN c + 3 ELSE 10

\* the update of the matching result: emails.extend, social_media.update, status,
\* confidence_score
merge_retry(rs, site, bundle) ==
    LET k == matching_result(rs, site)
    IN IF (bundle.emails # <<>> \/ bundle.social_media # EmptyMap) /\ k # 0
       THEN [rs EXCEPT ![k] =
                [@ EXCEPT !.emails = @ \o bundle.emails,
                          !.social_media = dict_update(@, bundle.social_media),
                          !.status = "Retry successful",
                          !.confidence_score = raised_confidence(@)]]
       ELSE rs

\* future.result(timeout=30) of the next future returns: its data is merged
RetryCollect ==
    /\ phase = "collect"
    /\ task[MainThread] <= Len(retry_futures)
    /\ retry_futures[task[MainThread]].state = "done"
    /\ results' = merge_retry(results, retry_futures[task[MainThread]].site,
                              retry_futures[task[MainThread]].result)
    /\ task' = [task EXCEPT ![MainThread] = @ + 1]
    /\ UNCHANGED <<shared, pc, mode, crawl_locals, fetch_locals, args_max_pages, businesses,
                   phase, retry_futures, history, dashboard>>

\* the time-out is not caught: retry_failed_websites ends with it
RetryTimeout_raises ==
    /\ phase = "collect"
    /\ task[MainThread] <= Len(retry_futures)
    /\ retry_futures[task[MainThread]].state # "done"
    /\ web[retry_futures[task[MainThread]].site].flaky
    /\ phase' = "end"
    /\ UNCHANGED <<shared, pc, mode, crawl_locals, fetch_locals, args_max_pages, businesses,
                   results, retry_futures, task, history, dashboard>>

\* future.result(timeout=30) of the next future times out: the exception is logged and
\* the loop goes on with the next future. A call outlasts the 30 seconds only on a site
\* whose server is unreliable (every request has its own time-out)
RetryTimeout ==
    /\ phase = "collect"
    /\ task[MainThread] <= Len(retry_futures)
    /\ retry_futures[task[MainThread]].state # "done"
    /\ web[retry_futures[task[MainThread]].site].flaky
    /\ task' = [task EXCEPT ![MainThread] = @ + 1]
    /\ UNCHANGED <<shared, pc, mode, crawl_locals, fetch_locals, args_max_pages, businesses,
                   results, phase, retry_futures, history, dashboard>>

\* the end of the with block with executor.shutdown(wait=False)
executor_joined_no_wait(futures) == TRUE

\* the end of the with block, executor.shutdown(wait=True): every submitted call has
\* returned
executor_joined(futures) == \A i \in 1..Len(futures) : futures[i].state = "done"

\* the loop over retry_futures is over and the with block ends, then results is returned
RetryShutdown ==
    /\ phase = "collect"
    /\ task[MainThread] > Len(retry_futures)
    /\ executor_joined(retry_futures)
    /\ phase' = "end"
    /\ UNCHANGED <<shared, pc, mode, crawl_locals, fetch_locals, args_max_pages, businesses,
                   results, retry_futures, task, history, dashboard>>

\* the retried site has one page that can be reached from its root
RetryWeb == MakeWeb(<<Rel("/contact")>>, <<>>)

Run(b, p, w) == [businesses |-> b, proxies |-> p, web |-> w]

\* the runs of the program: the websites of the listings, in the order they are
\* scraped, the proxy list, and the site; in the runs of three listings the root pages
\* alone are flaky, and in the last one that of acme.com alone
Listings ==
    {Run(<<RootA>>, <<>>, RetryWeb), Run(<<RootB>>, <<>>, RetryWeb),
     Run(<<RootA, RootB>>, <<>>, RetryWeb),
     Run(<<RootB, RootA>>, <<"p1", "p2">>, RetryWeb),
     Run(<<RootA, RootA>>, <<>>, RetryWeb),
     Run(<<RootA, RootB, RootA>>, <<>>, FlakyOnly(RetryWeb, RootUrls)),
     Run(<<RootA, RootA, RootB>>, <<>>, FlakyOnly(RetryWeb, {RootA}))}

Init ==
    \E r \in Listings, budget \in 1..MaxPagesArg :
        InitRun(r.web, NoFile, r.proxies, r.businesses, budget)

\* an attempt of a run ends with HTTP 200 or with a failure; Request does the same with
\* every kind of failure
Next ==
    \/ ScrapeBusiness
    \/ ScrapeAppend
    \/ \E order \in retry_sites(failed_websites) : RetrySubmit(order)
    \/ NoRetry
    \/ \E w \in Workers : WorkerTake(w)
    \/ \E w \in Workers : WorkerDone(w)
    \/ RetryCollect
    \/ RetryTimeout
    \/ RetryShutdown
    \/ \E t \in Threads :
          \/ CrawlPage(t)
          \/ FetchLoop(t)
          \/ GetProxyLoad(t)
          \/ GetProxyStore(t)
          \/ \E outcome \in {"200", "exception"} : Request(t, outcome)
          \/ ProcessPage(t)
          \/ Links(t)
          \/ SaveUpdate(t)
          \/ SaveAndReturn(t)

Spec == Init /\ [][Next]_vars

(***************************************************************************)
(* retry_failed_websites on five failed URLs                               *)
(***************************************************************************)
AboutB == Url("beta.org", "/about")

\* failed_websites after scrape_google_maps on five listings, the websites of which are
\* four pages of beta.org and acme.com/contact, when none of them could be fetched
FiveFailed == <<RootB, AboutB, Url("beta.org", "/contact"), ContactA, Url("beta.org", "/help")>>

\* the results of that pass
FiveResults == [i \in 1..Len(FiveFailed) |-> BusinessData(FiveFailed[i], EmptyBundle)]

\* the order of iteration of set(failed_websites) that is tried
FiveOrders ==
    {<<AboutB, Url("beta.org", "/help"), ContactA, RootB, Url("beta.org", "/contact")>>}

\* main() after scrape_google_maps returned from that pass; completed_urls holds the
\* root of the last crawl, and the locals of the calls that returned are gone; by the
\* time of the retry the server of acme.com alone is still flaky
InitRetry ==
    /\ web = FlakyOnly(RetryWeb, {ContactA})
    /\ session_data = [DefaultSession EXCEPT !.completed_urls = {Url("beta.org", "/help")}]
    /\ session_file = <<[DefaultSession EXCEPT !.completed_urls = {Url("beta.org", "/help")}]>>
    /\ proxies = <<>>
    /\ current_index = 0
    /\ failed_websites = FiveFailed
    /\ pc = [t \in Threads |-> "idle"]
    /\ mode = [t \in Threads |-> "crawl"]
    /\ root = [t \in Threads |-> NoUrl]
    /\ max_pages = [t \in Threads |-> 0]
    /\ visited = [t \in Threads |-> {}]
    /\ emails = [t \in Threads |-> {}]
    /\ social_media = [t \in Threads |-> EmptyMap]
    /\ stack = [t \in Threads |-> <<>>]
    /\ fetch_url = [t \in Threads |-> NoUrl]
    /\ retries = [t \in Threads |-> 0]
    /\ attempt = [t \in Threads |-> 0]
    /\ proxy = [t \in Threads |-> None]
    /\ next_index = [t \in Threads |-> 0]
    /\ response = [t \in Threads |-> None]
    /\ ret = [t \in Threads |-> EmptyBundle]
    /\ args_max_pages = DefaultMaxPages
    /\ businesses = <<>>
    /\ results = FiveResults
    /\ phase = "scrape"
    /\ retry_futures = <<>>
    /\ task = [t \in Threads |-> 0]
    /\ fetched = [t \in Threads |-> <<>>]
    /\ requests = [t \in Threads |-> 0]
    /\ last_outcome = [t \in Threads |-> None]
    /\ failed_before = [t \in Threads |-> <<>>]
    /\ marked = Range(FiveFailed)
    /\ was_marked = [t \in Threads |-> FALSE]
    /\ was_completed = [t \in Threads |-> FALSE]
    /\ proxy_calls = 0
    /\ ncalls = 0
    /\ slept = [t \in Threads |-> <<>>]
    /\ validated = NoCall
    /\ is_scraping = FALSE
    /\ scraper_threads = <<>>
    /\ handler = [h \in Handlers |-> NoRequest]
    /\ nrequests = 0

\* the steps of the main thread in retry_failed_websites
RetryMain ==
    \/ \E order \in FiveOrders : RetrySubmit(order)
    \/ RetryCollect
    \/ RetryTimeout
    \/ RetryShutdown

\* the steps of the executor thread w
RetryWorker(w) ==
    \/ WorkerTake(w)
    \/ CrawlPage(w)
    \/ FetchLoop(w)
    \/ \E outcome \in {"200", "exception"} : Request(w, outcome)
    \/ ProcessPage(w)
    \/ Links(w)
    \/ SaveUpdate(w)
    \/ SaveAndReturn(w)
    \/ WorkerDone(w)

NextRetry == RetryMain \/ \E w \in Workers : RetryWorker(w)

SpecRetry == InitRetry /\ [][NextRetry]_vars

\* every thread that can take a step takes one in the end: requests.get has a timeout,
\* future.result has a timeout, and the threads are scheduled by the operating system
SpecRetryLive ==
    SpecRetry /\ WF_vars(NextRetry)

(***************************************************************************)
(* EmailValidator, called by itself, and the validation loop of crawl_page *)
(***************************************************************************)
\* the local parts the validator is tried with
LocalParts ==
    { <<"i", "n", "f", "o">>,
      <<"I", "n", "f", "o">>,
      <<"c", "o", "n", "t", "a", "c", "t">>,
      <<"s", "a", "l", "e", "s">>,
      <<"s", "u", "p", "p", "o", "r", "t">>,
      <<"h", "e", "l", "l", "o">>,
      <<"n", "o", "r", "e", "p", "l", "y">>,
      <<"N", "o", "-", "R", "e", "p", "l", "y">>,
      <<"a", "d", "m", "i", "n">>,
      <<"t", "e", "s", "t">>,
      <<"c", "o", "n", "T", "e", "s", "t">>,
      <<"d", "u", "m", "m", "y">>,
      <<"w", "e", "b", "m", "a", "s", "t", "e", "r">>,
      <<"a">>,
      <<"i", "n", "f", "o", "d", "e", "s", "k">>,
      <<"s", "a", "l", "e", "s", ".", "c", "o", "n", "t", "a", "c", "t">>,
      <<"h", "e", "l", "l", "o", ".", "i", "n", "f", "o">>,
      <<".", "x">>,
      <<"x", ".">>,
      <<"x", ".", ".", "y">>,
      <<>>,
      <<"j", "o", "h", "n", "_", "d", "o", "e", "+", "1">> }

\* the domains the validator is tried with
Domains ==
    { <<"a", "c", "m", "e", ".", "c", "o", "m">>,
      <<"b", ".", "c", "o">>,
      <<"E", "x", "a", "m", "p", "l", "e", ".", "o", "r", "g">>,
      <<"a", "c", "m", "e">>,
      <<"a", "c", "m", "e", ".", "c", "1">> }

\* strings that are no address: no @, two @, a blank, a newline, no local part
NotAddresses ==
    { <<"i", "n", "f", "o", "a", "c", "m", "e", ".", "c", "o", "m">>,
      <<"a", "@", "b", "@", "c", ".", "c", "o">>,
      <<"a", " ", "b", "@", "a", "c", "m", "e", ".", "c", "o", "m">>,
      <<"x", "\n", "n", "o", "r", "e", "p", "l", "y", "@", "b", ".", "c", "o">>,
      <<"@">> }

EmailCandidates == {l \o <<"@">> \o dm : l \in LocalParts, dm \in Domains} \cup NotAddresses

\* the contexts score_email_confidence is tried with
Contexts ==
    { <<>>,
      <<"C", "o", "n", "t", "a", "c", "t", " ", "u", "s">>,
      <<"h", "o", "m", "e", " ", "p", "a", "g", "e">>,
      <<"C", "O", "N", "T", "A", "C", "T", "S">> }

\* the candidates re.findall returns on the page of the scenario: info@acme.com,
\* noreply@acme.com, a@b.co
ScenarioFound == <<<<"i", "n", "f", "o", "@", "a", "c", "m", "e", ".", "c", "o", "m">>,
                   <<"n", "o", "r", "e", "p", "l", "y", "@", "a", "c", "m", "e", ".", "c", "o", "m">>,
                   <<"a", "@", "b", ".", "c", "o">>>>

\* the lists of candidates the validation loop is tried with
FoundLists ==
    {ScenarioFound} \cup {<<a, b>> : a, b \in {<<"i", "n", "f", "o", "@", "a", "c", "m", "e", ".", "c", "o", "m">>, <<"W", "e", "b", "m", "a", "s", "t", "e", "r", "@", "a", "c", "m", "e", ".", "c", "o", "m">>, <<"a", "@", "b", ".", "c", "o">>, <<".", "x", "@", "a", "c", "m", "e", ".", "c", "o", "m">>, <<"s", "a", "l", "e", "s", "@", "e", "x", "a", "m", "p", "l", "e", ".", "c", "o", "m">>}}

\* for email in found_emails: if EmailValidator.validate_email(email):
\* validated_emails.append(email)
validated_emails(found_emails) == SelectSeq(found_emails, validate_email)

\* a call of EmailValidator, or of the validation loop, that has not returned
Call(op, email, context) ==
    [op |-> op, email |-> email, context |-> context, returned |-> FALSE, result |-> None,
     merges |-> 0]

\* the values scrape_google_maps gives confidence_score, in tenths
Confidences == {0, 1, 2, 4, 8}

\* a record of results with the confidence c, before the retry pass
Record(c) ==
    [op |-> "retry_failed_websites", email |-> <<>>, context |-> <<>>, returned |-> TRUE,
     result |-> c, merges |-> 0]

\* the calls that are tried
EmailCalls ==
    {Call(op, email, <<>>) : op \in {"validate_email", "categorize_email"},
                            email \in EmailCandidates}
    \cup {Call("score_email_confidence", email, context) :
            email \in EmailCandidates, context \in Contexts}
    \cup {Call("crawl_page", found_emails, <<>>) : found_emails \in FoundLists}
    \cup {Record(c) : c \in Confidences}

\* the call is made
EmailCall(call) ==
    /\ validated = NoCall
    /\ validated' = call
    /\ UNCHANGED <<shared, pc, mode, crawl_locals, fetch_locals, pipeline, fetched, requests,
                   slept, last_outcome, failed_before, marked, was_marked, was_completed,
                   proxy_calls, ncalls, dashboard>>

Returns(op, value) ==
    /\ validated # NoCall
    /\ validated.op = op
    /\ ~validated.returned
    /\ validated' = [validated EXCEPT !.returned = TRUE, !.result = value]

\* EmailValidator.validate_email(email) returns
ValidateEmail ==
    /\ Returns("validate_email", validate_email(validated.email))
    /\ UNCHANGED <<shared, pc, mode, crawl_locals, fetch_locals, pipeline, fetched, requests,
                   slept, last_outcome, failed_before, marked, was_marked, was_completed,
                   proxy_calls, ncalls, dashboard>>

\* EmailValidator.categorize_email(email) returns
CategorizeEmail ==
    /\ Returns("categorize_email", categorize_email(validated.email))
    /\ UNCHANGED <<shared, pc, mode, crawl_locals, fetch_locals, pipeline, fetched, requests,
                   slept, last_outcome, failed_before, marked, was_marked, was_completed,
                   proxy_calls, ncalls, dashboard>>

\* EmailValidator.score_email_confidence(email, context) returns
ScoreEmail ==
    /\ Returns("score_email_confidence",
               score_email_confidence(validated.email, validated.context))
    /\ UNCHANGED <<shared, pc, mode, crawl_locals, fetch_locals, pipeline, fetched, requests,
                   slept, last_outcome, failed_before, marked, was_marked, was_completed,
                   proxy_calls, ncalls, dashboard>>

\* the validation loop of crawl_page on the first page of a session (emails = set()):
\* emails.update(validated_emails)
ExtractEmails ==
    /\ Returns("crawl_page", validated_emails(validated.email))
    /\ emails' = [emails EXCEPT ![MainThread] = Range(validated_emails(validated.email))]
    /\ UNCHANGED <<shared, pc, mode, root, max_pages, visited, social_media, stack, ret,
                   fetch_locals, pipeline, fetched, requests, slept, last_outcome,
                   failed_before, marked, was_marked, was_completed, proxy_calls, ncalls, dashboard>>

\* the data of a retried site is merged into the record:
\* result.confidence_score = min(result.confidence_score + 0.3, 1.0)
MergeConfidence ==
    /\ validated # NoCall
    /\ validated.op = "retry_failed_websites"
    /\ validated.merges < MaxMerges
    /\ validated' = [validated EXCEPT !.merges = @ + 1, !.result = raised_confidence(@)]
    /\ UNCHANGED <<shared, pc, mode, crawl_locals, fetch_locals, pipeline, fetched, requests,
                   slept, last_outcome, failed_before, marked, was_marked, was_completed,
                   proxy_calls, ncalls, dashboard>>

InitEmail == InitWith(MakeWeb(<<>>, <<>>), NoFile, <<>>)

NextEmail ==
    \/ \E call \in EmailCalls : EmailCall(call)
    \/ ValidateEmail
    \/ CategorizeEmail
    \/ ScoreEmail
    \/ ExtractEmails
    \/ MergeConfidence

SpecEmail == InitEmail /\ [][NextEmail]_vars

(***************************************************************************)
(* The web dashboard (src/app.py): start_scraping and run_scraper_in_thread *)
(***************************************************************************)
\* request.form.get('query') of the requests that are tried
Queries == {"", "plumbers"}

AlreadyInProgress == "Scraping is already in progress"

QueryRequired == "Query is required"

ScrapingStarted == "Scraping started"

\* the threads that run run_scraper_in_thread
Running == {i \in 1..Len(scraper_threads) : scraper_threads[i] = "running"}

\* start_scraping reads the flag under a lock that is held until the thread is started
flag_seen_locked(h) == is_scraping \/ \E g \in Handlers : handler[g].pc \in {"set", "start"}

\* `if is_scraping:` as the handler h sees it
flag_seen(h) == is_scraping

\* a POST /start_scraping arrives and a thread of the server takes it
StartScraping(h, query) ==
    /\ handler[h].pc \in {"idle", "answered"}
    /\ nrequests < MaxRequests
    /\ nrequests' = nrequests + 1
    /\ handler' = [handler EXCEPT ![h] = [NoRequest EXCEPT !.pc = "check", !.query = query]]
    /\ UNCHANGED <<shared, pc, mode, crawl_locals, fetch_locals, pipeline, history,
                   is_scraping, scraper_threads>>

\* if is_scraping: return the error; the form is read; if not query: return the error
CheckFlag(h) ==
    /\ handler[h].pc = "check"
    /\ handler' = [handler EXCEPT ![h] =
                      IF flag_seen(h)
                      THEN [@ EXCEPT !.pc = "answered", !.response = AlreadyInProgress]
                      ELSE IF @.query = ""
                      THEN [@ EXCEPT !.pc = "answered", !.response = QueryRequired]
                      ELSE [@ EXCEPT !.pc = "set"]]
    /\ UNCHANGED <<shared, pc, mode, crawl_locals, fetch_locals, pipeline, history,
                   is_scraping, scraper_threads, nrequests>>

\* current_query = query; is_scraping = True
SetFlag(h) ==
    /\ handler[h].pc = "set"
    /\ is_scraping' = TRUE
    /\ handler' = [handler EXCEPT ![h].pc = "start"]
    /\ UNCHANGED <<shared, pc, mode, crawl_locals, fetch_locals, pipeline, history,
                   scraper_threads, nrequests>>

\* scraping_thread = threading.Thread(target=run_scraper_in_thread, ...);
\* scraping_thread.start(); return the success
StartThread(h) ==
    /\ handler[h].pc = "start"
    /\ scraper_threads' = Append(scraper_threads, "running")
    /\ handler' = [handler EXCEPT ![h] =
                      [@ EXCEPT !.pc = "answered", !.response = ScrapingStarted,
                                !.started = Len(scraper_threads) + 1]]
    /\ UNCHANGED <<shared, pc, mode, crawl_locals, fetch_locals, pipeline, history,
                   is_scraping, nrequests>>

\* run_scraper_in_thread ends, by the end of its try block ("completed") or by its
\* except block ("raised"); finally: is_scraping = False
ScraperEnds(i, how) ==
    /\ i \in Running
    /\ scraper_threads' = [scraper_threads EXCEPT ![i] = how]
    /\ is_scraping' = FALSE
    /\ UNCHANGED <<shared, pc, mode, crawl_locals, fetch_locals, pipeline, history,
                   handler, nrequests>>

InitApp == InitWith(MakeWeb(<<>>, <<>>), NoFile, <<>>)

NextApp ==
    \/ \E h \in Handlers, query \in Queries : StartScraping(h, query)
    \/ \E h \in Handlers : CheckFlag(h)
    \/ \E h \in Handlers : SetFlag(h)
    \/ \E h \in Handlers : StartThread(h)
    \/ \E i \in 1..MaxRequests, how \in {"completed", "raised"} : ScraperEnds(i, how)

SpecApp == InitApp /\ [][NextApp]_vars

(***************************************************************************)
(* Properties                                                              *)
(***************************************************************************)
\* C1: save_session is additive: the URLs of the completed set it is given are
\* completed afterwards, and a URL that was completed before a save is still completed
\* after it.
C1_SaveAdditive ==
    [][/\ \A u \in StoreUrls : is_completed_in(session_data, u) => is_completed_in(session_data', u)
       /\ \A data \in SaveInputs :
            (StoreSave(data) /\ "completed_urls" \in DOMAIN data)
                => \A u \in data.completed_urls : is_completed_in(session_data', u)]_vars

\* C2: a crawl invoked for a root that an earlier crawl marked completed fetches no
\* page.
C2_CompletedNeverRecrawled == \A t \in Threads : was_marked[t] => fetched[t] = <<>>

\* C3: every site of the failed set that retry_failed_websites ran a call for was
\* crawled again, the call fetching at least a page; and when the pass has ended, the
\* data of every call that returned some is in the first result of that website, marked
\* "Retry successful".
C3_RetryRecrawlsAndMerges ==
    \A i \in 1..Len(retry_futures) :
        /\ retry_futures[i].state = "done" => retry_futures[i].fetched # <<>>
        /\ (phase = "end" /\ matching_result(results, retry_futures[i].site) # 0
                /\ (retry_futures[i].result.emails # <<>>
                        \/ retry_futures[i].result.social_media # EmptyMap))
              => LET r == results[matching_result(results, retry_futures[i].site)]
                 IN /\ Range(retry_futures[i].result.emails) \subseteq Range(r.emails)
                    /\ r.status = "Retry successful"

\* C4 as stated: a crawl with max_pages = 0 that passed the entry guard has fetched
\* exactly the root page when it returns.
C4_ZeroBudgetFetchesRoot ==
    \A t \in Threads :
        (pc[t] = "done" /\ ~was_completed[t] /\ max_pages[t] = 0) => fetched[t] = <<root[t]>>

\* C4 amended: a crawl with max_pages = 0 that passed the entry guard fetches no page at
\* all and returns the empty bundle; with max_pages = 1 it fetches exactly the root page.
C4_ZeroBudgetFetchesNothing ==
    \A t \in Threads :
        /\ (pc[t] \in {"save", "dump", "done"} /\ ~was_completed[t] /\ max_pages[t] = 0)
              => fetched[t] = <<>>
        /\ (pc[t] = "done" /\ ~was_completed[t] /\ max_pages[t] = 0) => ret[t] = EmptyBundle
        /\ (pc[t] = "done" /\ ~was_completed[t] /\ max_pages[t] = 1)
              => fetched[t] = <<root[t]>>

C4_Witness ==
    /\ pc[MainThread] = "done"
    /\ ~was_completed[MainThread]
    /\ max_pages[MainThread] = 0
    /\ root[MainThread] = RootA
    /\ web[RootA].links # <<>>

\* the URLs the hrefs of page u resolve to
LinkedFrom(u) == {urljoin(u, web[u].links[i]) : i \in {j \in 1..Len(web[u].links) :
                                                        ~urljoin_raises(web[u].links[j])}}

\* C5: a page other than the root is fetched only when its link scored more than 0 on a
\* page fetched before it; on the site root -> /contact (score 3, one valid e-mail),
\* root -> /blog (score 0), a crawl with max_pages = 2 never fetches /blog, fetches no
\* page but the root and /contact, and, no fetch failing, returns having fetched root
\* and /contact with exactly that e-mail.
C5_OnlyScoredLinksFetched ==
    \A t \in Threads :
        /\ \A i \in 2..Len(fetched[t]) :
              /\ score_page_relevance(UrlKeywords(fetched[t][i]), {}) > 0
              /\ \E j \in 1..(i - 1) : fetched[t][i] \in LinkedFrom(fetched[t][j])
        /\ (web[RootA].links = ScenarioRootLinks /\ root[t] = RootA /\ max_pages[t] = 2)
              => /\ BlogA \notin Range(fetched[t])
                 /\ Range(fetched[t]) \subseteq {RootA, ContactA}
                 /\ (pc[t] = "done" /\ ~was_completed[t] /\ failed_websites = <<>>)
                       => /\ fetched[t] = <<RootA, ContactA>>
                          /\ ret[t].emails = <<"info@acme.com">>

C5_Witness ==
    /\ web[RootA].links = ScenarioRootLinks
    /\ root[MainThread] = RootA
    /\ max_pages[MainThread] = 2
    /\ pc[MainThread] = "done"
    /\ failed_websites = <<>>
    /\ fetched[MainThread] = <<RootA, ContactA>>
    /\ ret[MainThread].emails = <<"info@acme.com">>

\* C6: the number of distinct pages a crawl session has fetched never exceeds max_pages.
C6_PagesWithinBudget ==
    \A t \in Threads : Cardinality(Range(fetched[t])) <= max_pages[t]

\* C7: fetch_with_retry makes at most `retries` attempts, never gives up before the
\* last of them, and returns the response when an attempt (the k-th of retries = k
\* included) ends with HTTP 200 after any mix of failures.
C7_SuccessOnKthAttempt ==
    \A t \in Threads :
        /\ requests[t] <= retries[t]
        /\ pc[t] = "fetch_done"
              => /\ last_outcome[t] = "200" => response[t] = "200"
                 /\ response[t] = None => requests[t] = retries[t]

C7_Witness ==
    /\ pc[MainThread] = "fetch_done"
    /\ retries[MainThread] = DefaultRetries
    /\ requests[MainThread] = DefaultRetries
    /\ response[MainThread] = "200"

\* C8: fetch_with_retry always returns the response or None; it returns None exactly
\* when every attempt was made and none ended with HTTP 200, and then the URL has been
\* appended to failed_websites exactly once by this call, and not at all otherwise.
C8_FailureIsAReturnValue ==
    \A t \in Threads :
        /\ pc[t] \in {"idle", "fetch", "get_proxy", "get_proxy_store", "request", "fetch_done"}
        /\ pc[t] \in {"fetch", "get_proxy", "get_proxy_store", "request"}
              => failed_websites = failed_before[t]
        /\ pc[t] = "fetch_done"
              => /\ response[t] \in {None, "200"}
                 /\ response[t] = None <=>
                       (requests[t] = retries[t] /\ last_outcome[t] # "200")
                 /\ failed_websites = IF response[t] = None
                                      THEN Append(failed_before[t], fetch_url[t])
                                      ELSE failed_before[t]

C8_Witness ==
    /\ pc[MainThread] = "fetch_done"
    /\ response[MainThread] = None
    /\ retries[MainThread] = DefaultRetries
    /\ last_outcome[MainThread] = "exception"
    /\ failed_websites = <<RootA, RootA>>

C10_RoundRobin ==
    proxy_calls >= 1 =>
        IF proxies = <<>>
        THEN proxy[MainThread] = None /\ current_index = 0
        ELSE /\ proxy[MainThread] = proxies[((proxy_calls - 1) % Len(proxies)) + 1]
             /\ current_index = proxy_calls % Len(proxies)

C10_Witness ==
    /\ proxies = <<"p1", "p2", "p3">>
    /\ proxy_calls = 4
    /\ proxy[MainThread] = "p1"
    /\ current_index = 1

\* C14: within a crawl session no URL is passed to fetch_with_retry twice, and every URL
\* passed to it was added to visited before.
C14_FetchedAtMostOnce ==
    \A t \in Threads :
        /\ \A i, j \in 1..Len(fetched[t]) : i # j => fetched[t][i] # fetched[t][j]
        /\ pc[t] # "idle" => Range(fetched[t]) \subseteq visited[t]

\* crawl_page is entered for a page the session has visited: the second /contact of the
\* root page, or the /contact that both the root page and /about link to
C14_Witness ==
    /\ pc[MainThread] = "crawl_page"
    /\ Top(MainThread).page_url = ContactA
    /\ ContactA \in visited[MainThread]
    /\ ContactA \in Range(fetched[MainThread])

\* C15: the depth of a page that is fetched is below max_pages, and no call of crawl_page
\* has a depth above max_pages.
C15_DepthWithinBudget ==
    \A t \in Threads : \A i \in 1..Len(stack[t]) :
        /\ stack[t][i].depth <= max_pages[t]
        /\ (i < Len(stack[t]) \/ pc[t] # "crawl_page") => stack[t][i].depth < max_pages[t]

\* crawl_page is entered at depth max_pages = 2 and is about to return
C15_Witness ==
    /\ pc[MainThread] = "crawl_page"
    /\ max_pages[MainThread] = 2
    /\ Len(stack[MainThread]) = 3
    /\ Top(MainThread).depth = 2

\* C16: the links crawl_page keeps for recursion have the netloc of the crawl root, are
\* http URLs and are not in visited when they are ranked; every URL a session fetches has
\* the netloc of its root.
C16_SameDomainLinksOnly ==
    [][\A t \in Threads :
          /\ (pc[t] = "process" /\ pc'[t] = "links" /\ Len(stack'[t]) = Len(stack[t]))
                => \A i \in 1..Len(stack'[t][Len(stack'[t])].todo) :
                      LET link == stack'[t][Len(stack'[t])].todo[i].link
                      IN /\ link.netloc = root[t].netloc
                         /\ link.scheme = "http"
                         /\ link \notin visited[t]
          /\ \A i \in 1..Len(fetched'[t]) : fetched'[t][i].netloc = root'[t].netloc]_vars

\* the root page links to beta.org/contact, to a mailto: address and to itself; the
\* session fetched the root and /help only
C16_Witness ==
    /\ pc[MainThread] = "done"
    /\ root[MainThread] = RootA
    /\ Abs("beta.org", "/contact") \in Range(web[RootA].links)
    /\ fetched[MainThread] = <<RootA, Url("acme.com", "/help")>>

\* C18: a call of extract_emails_and_social for a URL the session record holds as
\* completed returns at once with the empty bundle, fetches nothing, and leaves the
\* session record, the session file, failed_websites and the proxy cursor as they were.
C18_EntryGuardNoOp ==
    [][\A t \in Threads :
          (pc[t] = "idle" /\ pc'[t] # "idle" /\ root'[t] \in session_data.completed_urls)
              => /\ pc'[t] = "done"
                 /\ ret'[t] = EmptyBundle
                 /\ fetched'[t] = <<>>
                 /\ UNCHANGED <<session_data, session_file, failed_websites, current_index>>]_vars

\* a second call for a root that a crawl of this run completed has returned
C18_Witness ==
    /\ pc[MainThread] = "done"
    /\ was_completed[MainThread]
    /\ was_marked[MainThread]
    /\ ret[MainThread] = EmptyBundle
    /\ fetched[MainThread] = <<>>

\* C17: load_session never fails: no run ends with an exception of load_session, and
\* with no session file it returns the empty default record.
C17_LoadNeverFails ==
    /\ pc[MainThread] # "raised"
    /\ session_file = NoFile => session_data = DefaultSession

\* the threads that are inside get_proxy, between the read of self.proxies[self.current_index]
\* and the assignment to self.current_index
InGetProxy == {t \in Threads : pc[t] \in {"get_proxy", "get_proxy_store"}}

\* C19: get_proxy is mutually exclusive: at most one thread is inside it at a time, so
\* that no two calls that overlap have read the same entry of the list.
C19_ProxyCursorExclusive ==
    /\ Cardinality(InGetProxy) <= 1
    /\ \A t1, t2 \in InGetProxy : t1 # t2 => proxy[t1] # proxy[t2]

\* the threads that are inside save_session, between self.session_data.update(data) and
\* the end of pickle.dump
InSaveSession == {t \in Threads : pc[t] = "dump"}

\* C20: save_session is serialized: at most one thread is inside it at a time, and when
\* two workers have completed their sessions, the roots of both are in completed_urls.
C20_SaveSerialized ==
    /\ Cardinality(InSaveSession) <= 1
    /\ \A t1, t2 \in Workers :
          (t1 # t2 /\ pc[t1] = "done" /\ pc[t2] = "done"
                /\ ~was_completed[t1] /\ ~was_completed[t2])
              => {root[t1], root[t2]} \subseteq session_data.completed_urls

\* C12: when the data of a retry is merged, the matching result gets the union of its
\* e-mails and the recovered ones, without duplicates, its social_media overlaid by the
\* recovered entries, the status "Retry successful", and its confidence raised by 0.3
\* up to 1.0.
C12_MergeIsUnion ==
    [][(phase = "collect" /\ results' # results)
          => LET f == retry_futures[task[MainThread]]
                 k == matching_result(results, f.site)
                 old == results[k]
                 new == results'[k]
             IN /\ Range(new.emails) = Range(old.emails) \cup Range(f.result.emails)
                /\ Len(new.emails) = Cardinality(Range(new.emails))
                /\ new.social_media = dict_update(old.social_media, f.result.social_media)
                /\ new.status = "Retry successful"
                /\ new.confidence_score =
                      (IF old.confidence_score + 3 > 10 THEN 10 ELSE old.confidence_score + 3)
                /\ new.website = f.site]_vars

\* the futures that returned data for a site that has a result
Recovered ==
    {i \in 1..Len(retry_futures) :
        /\ retry_futures[i].state = "done"
        /\ retry_futures[i].result # EmptyBundle
        /\ matching_result(results, retry_futures[i].site) # 0}

\* C13: the sites of the retry futures are distinct, and the merges of the data of any
\* two of them give the same results in either order.
C13_MergeOrderIndependent ==
    \A i, j \in 1..Len(retry_futures) :
        i # j =>
            /\ retry_futures[i].site # retry_futures[j].site
            /\ (i \in Recovered /\ j \in Recovered)
                  => merge_retry(merge_retry(results, retry_futures[i].site,
                                             retry_futures[i].result),
                                 retry_futures[j].site, retry_futures[j].result)
                     = merge_retry(merge_retry(results, retry_futures[j].site,
                                               retry_futures[j].result),
                                   retry_futures[i].site, retry_futures[i].result)

\* the retries of two sites both returned data, the second having ended first, and both
\* were merged
C13_Witness ==
    /\ phase = "end"
    /\ Len(retry_futures) = 2
    /\ Recovered = {1, 2}
    /\ \A k \in 1..Len(results) : results[k].status = "Retry successful"
    /\ results[1].website # results[2].website

\* C11: retry_failed_websites, called with five distinct failed URLs, returns in the
\* end, and when it returns each of the five futures has been waited for by the loop
\* (its data taken or its time-out logged) and each of the five calls has returned.
C11_RetryAllTerminates ==
    /\ <>(phase = "end")
    /\ [](phase = "end" =>
            /\ Len(retry_futures) = Len(FiveFailed)
            /\ task[MainThread] = Len(retry_futures) + 1
            /\ \A i \in 1..Len(retry_futures) : retry_futures[i].state = "done")

\* the pass has returned with the data of some site merged, and the wait for another
\* call timed out: that call returned with data after the loop had gone past it, so its
\* data is in its future and not in the results
C11_Witness ==
    /\ phase = "end"
    /\ Len(retry_futures) = Len(FiveFailed)
    /\ \A i \in 1..Len(retry_futures) : retry_futures[i].state = "done"
    /\ \E k \in 1..Len(results) : results[k].status = "Retry successful"
    /\ \E i \in 1..Len(retry_futures) :
          /\ retry_futures[i].result # EmptyBundle
          /\ results[matching_result(results, retry_futures[i].site)].status
                # "Retry successful"

\* C21: during a retry pass at most max_workers calls of extract_emails_and_social are
\* running at any time, however many futures were submitted.
C21_AtMostMaxWorkersRunning ==
    /\ Cardinality({i \in 1..Len(retry_futures) : retry_futures[i].state = "running"})
         <= max_workers
    /\ Cardinality({t \in Threads \ {MainThread} : pc[t] # "idle"}) <= max_workers

\* three of the five calls are running and the others wait for a thread
C21_Witness ==
    /\ Len(retry_futures) = Len(FiveFailed)
    /\ Cardinality({i \in 1..Len(retry_futures) : retry_futures[i].state = "running"})
         = max_workers
    /\ Pending # {}

\* the sites of the futures, in submission order
FutureSites(futures) == [i \in 1..Len(futures) |-> futures[i].site]

\* C22: the futures of a retry pass are those of the distinct URLs of failed_websites,
\* one each; after the submission no future is added, whatever fails during the pass,
\* and a future is run once (pending, then running, then done).
C22_OneDispatchPerUrl ==
    /\ [](\A i, j \in 1..Len(retry_futures) :
            retry_futures[i].site = retry_futures[j].site => i = j)
    /\ [][(phase = "scrape" /\ phase' = "collect")
            => Range(FutureSites(retry_futures')) = Range(failed_websites)]_vars
    /\ [][phase = "collect"
            => /\ FutureSites(retry_futures') = FutureSites(retry_futures)
               /\ \A i \in 1..Len(retry_futures) :
                     \/ retry_futures'[i].state = retry_futures[i].state
                     \/ <<retry_futures[i].state, retry_futures'[i].state>>
                           \in {<<"pending", "running">>, <<"running", "done">>}]_vars

\* a URL occurs twice in failed_websites and has one future; it failed again in the
\* pass and the pass returned
C22_Witness ==
    /\ phase = "end"
    /\ retry_futures # <<>>
    /\ \E i \in 1..Len(retry_futures) :
          Cardinality({k \in 1..Len(failed_websites) :
                         failed_websites[k] = retry_futures[i].site}) >= 3

\* the step of the loop of retry_failed_websites on a future that has not returned
\* (future.result raised TimeoutError)
TimeoutStep ==
    /\ phase = "collect"
    /\ task[MainThread] <= Len(retry_futures)
    /\ retry_futures[task[MainThread]].state # "done"
    /\ task'[MainThread] # task[MainThread] \/ phase' # phase

\* C23: a time-out of one future is caught in the loop: the loop goes on with the next
\* future, results and the futures are left as they are, and the pass ends only after
\* the loop went past every future.
C23_TimeoutCaughtPerTask ==
    /\ [][TimeoutStep
            => /\ phase' = "collect"
               /\ task'[MainThread] = task[MainThread] + 1
               /\ results' = results
               /\ retry_futures' = retry_futures]_vars
    /\ [](phase = "end" => task[MainThread] = Len(retry_futures) + 1)

\* the wait for a future timed out, the call is still running, and the data of a
\* later future has been merged
C23_Witness ==
    /\ phase = "collect"
    /\ \E i, j \in 1..Len(retry_futures) :
          /\ i < j
          /\ j < task[MainThread]
          /\ retry_futures[i].state = "running"
          /\ retry_futures[j].result # EmptyBundle
          /\ results[matching_result(results, retry_futures[j].site)].status
                = "Retry successful"

\* the failed attempts of the direct call, other than HTTP 429, after which another
\* attempt was made
Retried(t) ==
    {i \in 1..Len(slept[t]) : slept[t][i].outcome # "429" /\ slept[t][i].attempt < retries[t]}

\* C27: in a fetch_with_retry call the times slept after the failed attempts other than
\* HTTP 429 (an exception, another status), before the next attempt, are non-negative
\* and weakly increasing with the attempt.
C27_DelaysWeaklyIncreasing ==
    \A i, j \in Retried(MainThread) :
        /\ slept[MainThread][i].delay >= 0
        /\ i < j => slept[MainThread][i].delay <= slept[MainThread][j].delay

\* C28: after every attempt that ends with an exception or with a status other than 200
\* and 429, and is not the last one, fetch_with_retry sleeps base_delay * 2^(attempt-1)
\* plus a jitter in [0, 1) before the next attempt, and a call without a 200 makes
\* `retries` attempts.
C28_BackoffAfterEveryFailure ==
    /\ \A i \in Retried(MainThread) :
          LET f == slept[MainThread][i]
          IN /\ f.delay >= backoff_delay(DefaultBaseDelay, f.attempt, 0)
             /\ f.delay < backoff_delay(DefaultBaseDelay, f.attempt, 0) + 10
    /\ (pc[MainThread] = "fetch_done" /\ response[MainThread] = None)
          => requests[MainThread] = retries[MainThread]

\* word occurs in s, whatever the case of the letters of s
contains_ci(word, s) ==
    \E i \in 1..(Len(s) - Len(word) + 1) :
        \A k \in 1..Len(word) :
            \/ s[i + k - 1] = word[k]
            \/ \E n \in 1..Len(LowerCase) : LowerCase[n] = word[k] /\ UpperCase[n] = s[i + k - 1]

\* the prefixes that have a category of their own, in the order they are checked
NamedPrefixes == <<<<"i", "n", "f", "o">>, <<"c", "o", "n", "t", "a", "c", "t">>, <<"s", "a", "l", "e", "s">>, <<"s", "u", "p", "p", "o", "r", "t">>, <<"h", "e", "l", "l", "o">>>>

\* the address begins with the prefix and an @, whatever the case of its letters
has_prefix(email, prefix) ==
    /\ Len(email) > Len(prefix)
    /\ contains_ci(prefix \o <<"@">>, SubSeq(email, 1, Len(prefix) + 1))

\* the category whose name is spelled by the prefix
CategoryOf(prefix) ==
    CASE prefix = <<"i", "n", "f", "o">> -> "info"
      [] prefix = <<"c", "o", "n", "t", "a", "c", "t">> -> "contact"
      [] prefix = <<"s", "a", "l", "e", "s">> -> "sales"
      [] prefix = <<"s", "u", "p", "p", "o", "r", "t">> -> "support"
      [] prefix = <<"h", "e", "l", "l", "o">> -> "hello"

Categories == {"info", "contact", "sales", "support", "hello", "general", "other"}

\* a categorize_email call that returned
Categorized == validated # NoCall /\ validated.op = "categorize_email" /\ validated.returned

\* there is an @ in the first line of s
at_in_first_line(s) == \E i \in 1..Len(s) : s[i] = "@" /\ \A k \in 1..(i - 1) : s[k] # "\n"

\* C24 as claimed: categorize_email returns one of the seven categories, the category of
\* the first named prefix the address begins with, and 'other' for an address that
\* begins with none of them.
C24_UnknownPrefixIsOther ==
    Categorized =>
        /\ validated.result \in Categories
        /\ \A n \in 1..Len(NamedPrefixes) :
              (has_prefix(validated.email, NamedPrefixes[n])
                 /\ \A m \in 1..(n - 1) : ~has_prefix(validated.email, NamedPrefixes[m]))
              => validated.result = CategoryOf(NamedPrefixes[n])
        /\ (\A n \in 1..Len(NamedPrefixes) : ~has_prefix(validated.email, NamedPrefixes[n]))
              => validated.result = "other"

\* C24, amended: categorize_email returns one of the seven categories, the category of
\* the first named prefix the address begins with; an address that begins with none of
\* them is 'general', and 'other' is returned only for a string with no @ in its first
\* line.
C24_CategoryOfFirstMatch ==
    Categorized =>
        /\ validated.result \in Categories
        /\ \A n \in 1..Len(NamedPrefixes) :
              (has_prefix(validated.email, NamedPrefixes[n])
                 /\ \A m \in 1..(n - 1) : ~has_prefix(validated.email, NamedPrefixes[m]))
              => validated.result = CategoryOf(NamedPrefixes[n])
        /\ (\A n \in 1..Len(NamedPrefixes) : ~has_prefix(validated.email, NamedPrefixes[n]))
              => validated.result = (IF at_in_first_line(validated.email) THEN "general"
                                     ELSE "other")

\* a@b.co was categorized: it is 'general'
C24_Witness ==
    /\ Categorized
    /\ validated.email = <<"a", "@", "b", ".", "c", "o">>
    /\ validated.result = "general"

\* the score the claim gives, in tenths
ClaimedScore(email, context) ==
    LET typed == IF contains_ci(<<"c", "o", "n", "t", "a", "c", "t">>, email) \/ contains_ci(<<"i", "n", "f", "o">>, email) THEN 3
                 ELSE IF contains_ci(<<"s", "a", "l", "e", "s">>, email) \/ contains_ci(<<"h", "e", "l", "l", "o">>, email) THEN 2
                 ELSE 0
        total == 5 + typed + (IF contains_ci(<<"c", "o", "n", "t", "a", "c", "t">>, context) THEN 2 ELSE 0)
    IN Min({total, 10})

\* C25: score_email_confidence returns min(0.5 + (0.3 for 'contact' or 'info' in the
\* address, else 0.2 for 'sales' or 'hello') + (0.2 for 'contact' in the context), 1.0),
\* which is within [0, 1], and the confidence of a record stays within [0, 1] after any
\* number of retry merges.
C25_ConfidenceWithinUnit ==
    /\ (validated # NoCall /\ validated.op = "score_email_confidence" /\ validated.returned)
          => /\ validated.result = ClaimedScore(validated.email, validated.context)
             /\ validated.result >= 0 /\ validated.result <= 10
    /\ (validated # NoCall /\ validated.op = "retry_failed_websites")
          => validated.result >= 0 /\ validated.result <= 10

\* an address with 'contact' in it was scored in a context with 'contact' in it: the
\* score is 1.0
C25_Witness ==
    /\ validated # NoCall
    /\ validated.op = "score_email_confidence"
    /\ validated.returned
    /\ contains_ci(<<"c", "o", "n", "t", "a", "c", "t">>, validated.email)
    /\ contains_ci(<<"c", "o", "n", "t", "a", "c", "t">>, validated.context)
    /\ validated.result = 10

\* the address is well-formed and none of the seven words occurs in it, whatever the case
Accepted(email) ==
    /\ validators_email(email)
    /\ \A word \in {<<"n", "o", "r", "e", "p", "l", "y">>, <<"n", "o", "-", "r", "e", "p", "l", "y">>, <<"a", "d", "m", "i", "n">>, <<"t", "e", "s", "t">>,
                    <<"e", "x", "a", "m", "p", "l", "e">>, <<"d", "u", "m", "m", "y">>, <<"w", "e", "b", "m", "a", "s", "t", "e", "r">>} :
          ~contains_ci(word, email)

\* C26: validate_email(e) is true exactly when e is well-formed and holds none of the
\* seven words noreply, no-reply, admin, test, example, dummy, webmaster in any case;
\* the validation loop of crawl_page puts the accepted candidates, and no other, into
\* emails, and records no failure for a rejected one.
C26_ValidateIffWellFormedAndClean ==
    /\ (validated # NoCall /\ validated.op = "validate_email" /\ validated.returned)
          => (validated.result <=> Accepted(validated.email))
    /\ (validated # NoCall /\ validated.op = "crawl_page" /\ validated.returned)
          => /\ emails[MainThread] = {c \in Range(validated.email) : Accepted(c)}
             /\ failed_websites = <<>>

\* the page of the scenario: of info@acme.com, noreply@acme.com and a@b.co the first
\* and the last are kept
C26_Witness ==
    /\ validated # NoCall
    /\ validated.op = "crawl_page"
    /\ validated.returned
    /\ validated.email = ScenarioFound
    /\ emails[MainThread] = {<<"i", "n", "f", "o", "@", "a", "c", "m", "e", ".", "c", "o", "m">>, <<"a", "@", "b", ".", "c", "o">>}

\* the (score, link) pairs of the eligible hrefs of the page on top of the stack of t,
\* scored by the URL
EligibleLinks(t) ==
    LET page_url == Top(t).page_url
        links == web[page_url].links
    IN {[score |-> score_page_relevance(UrlKeywords(urljoin(page_url, links[i])), {}),
         link |-> urljoin(page_url, links[i])] :
          i \in {j \in 1..Len(links) :
                   LET l == urljoin(page_url, links[j])
                   IN l.netloc = root[t].netloc /\ l.scheme = "http" /\ l \notin visited[t]}}

\* C29: the links of a fetched page that crawl_page goes through are at most 3, they are
\* eligible links in descending order of score, no eligible link left out has a higher
\* score than one of them, and crawl_page(link, depth + 1) is called only for those of
\* them with score > 0.
C29_TopThreeScoredLinks ==
    [][\A t \in Threads :
          /\ (pc[t] = "process" /\ pc'[t] = "links" /\ Len(stack'[t]) = Len(stack[t]))
                => LET todo == stack'[t][Len(stack'[t])].todo
                   IN /\ Len(todo) <= 3
                      /\ Len(todo) = 3 \/ Range(todo) = EligibleLinks(t)
                      /\ Range(todo) \subseteq EligibleLinks(t)
                      /\ \A i, j \in 1..Len(todo) : i < j => todo[i].score >= todo[j].score
                      /\ \A x \in EligibleLinks(t) \ Range(todo) :
                            \A i \in 1..Len(todo) : x.score <= todo[i].score
          /\ (pc[t] = "links" /\ pc'[t] = "crawl_page")
                => /\ Head(Top(t).todo).score > 0
                   /\ stack'[t][Len(stack'[t])].page_url = Head(Top(t).todo).link
                   /\ stack'[t][Len(stack'[t])].depth = Top(t).depth + 1
          /\ (pc[t] = "links" /\ pc'[t] = "links" /\ Top(t).todo # <<>>)
                => Head(Top(t).todo).score = 0
      ]_vars

\* the root page has five eligible hrefs; three are taken, /help (score 2) is left out
C29_Witness ==
    /\ pc[MainThread] = "links"
    /\ Len(stack[MainThread]) = 1
    /\ Len(web[RootA].links) = 5
    /\ Len(Top(MainThread).todo) = 3
    /\ \A i \in 1..3 : Top(MainThread).todo[i].link # Url("acme.com", "/help")
    /\ \A i \in 1..3 : Top(MainThread).todo[i].score = 3

\* the phrases of score_page_relevance in the text of a page: the candidates of the
\* e-mail pattern hold an @
ContentWords(page) == IF page.emails # <<>> THEN {"@"} ELSE {}

\* C30: the score by which the links of a page are ranked is the sum of the four
\* rules, those on the page text included: +3 and +2 by the URL, +2 for 'contact us' or
\* 'get in touch' in the text, +1 for an @ in the text.
C30_TextRulesRankLinks ==
    \A t \in Threads :
        \A k \in 1..Len(stack[t]) :
            \A i \in 1..Len(stack[t][k].todo) :
                stack[t][k].todo[i].score
                  = score_page_relevance(UrlKeywords(stack[t][k].todo[i].link),
                                         ContentWords(web[stack[t][k].page_url]))

\* the href list of the page raises in the scored_links loop
page_raises(u) == \E i \in 1..Len(web[u].links) : urljoin_raises(web[u].links[i])

\* the step of thread t is the return of crawl_page after fetch_with_retry returned None
FetchFailureStep(t) ==
    pc[t] = "fetch" /\ mode[t] = "crawl" /\ pc'[t] \in {"links", "save"}

\* the step of thread t is the return of crawl_page from its except block
PageExceptionStep(t) == pc[t] = "process" /\ page_raises(Top(t).page_url)

\* the call of crawl_page that fails is the only one that ends, its caller is in its
\* loop with the links it had left, and nothing is taken out of emails and social_media
BranchOnlyAbandoned(t) ==
    /\ stack'[t] = SubSeq(stack[t], 1, Len(stack[t]) - 1)
    /\ Len(stack[t]) > 1 => pc'[t] = "links"
    /\ emails[t] \subseteq emails'[t]
    /\ \A p \in DOMAIN social_media[t] :
          p \in DOMAIN social_media'[t]
            /\ (p \notin DOMAIN extract_social_media(web[Top(t).page_url].social)
                  => social_media'[t][p] = social_media[t][p])

\* the links of the root page the root call of crawl_page goes through, when the root
\* page was fetched and processed
RootTodo(t) ==
    IF root[t] \in Range(failed_websites) \/ page_raises(root[t]) THEN <<>>
    ELSE top_links(sort_reverse(scored_links(root[t].netloc, root[t], web[root[t]].links,
                                             {root[t]})))

\* whatever failed below the root page, crawl_page was called for every link of the
\* root page that the loop takes: the link was fetched, by that call or before it
SiblingsStillCrawled ==
    \A t \in Threads :
        (pc[t] = "done" /\ ~was_completed[t] /\ max_pages[t] >= 2)
            => \A i \in 1..Len(RootTodo(t)) :
                  should_follow(RootTodo(t)[i].score) => RootTodo(t)[i].link \in Range(fetched[t])

\* C31 as claimed: a fetch failure or an exception in the processing of a page ends the
\* crawl_page call of that page only: the data gathered so far is kept, the caller goes
\* on with its remaining links, and the URL of the page is in failed_websites afterwards.
C31_FailedPageRecorded ==
    /\ [][\A t \in Threads :
            /\ FetchFailureStep(t)
                  => BranchOnlyAbandoned(t) /\ fetch_url[t] \in Range(failed_websites')
            /\ PageExceptionStep(t)
                  => BranchOnlyAbandoned(t) /\ Top(t).page_url \in Range(failed_websites')]_vars
    /\ []SiblingsStillCrawled

\* C31, amended: a fetch failure or an exception in the processing of a page ends the
\* crawl_page call of that page only: the data gathered so far is kept and the caller
\* goes on with its remaining links; after a fetch failure the URL of the page is in
\* failed_websites, and an exception in the processing adds nothing to failed_websites.
C31_BranchOnlyAbandoned ==
    /\ [][\A t \in Threads :
            /\ FetchFailureStep(t)
                  => BranchOnlyAbandoned(t) /\ fetch_url[t] \in Range(failed_websites')
            /\ PageExceptionStep(t)
                  => BranchOnlyAbandoned(t) /\ failed_websites' = failed_websites]_vars
    /\ []SiblingsStillCrawled

\* the processing of /contact raised after its e-mail was taken, the fetch of its
\* sibling /about failed, and the crawl returned with the e-mail of /contact
C31_Witness ==
    /\ pc[MainThread] = "done"
    /\ page_raises(ContactA)
    /\ fetched[MainThread] = <<RootA, ContactA, Url("acme.com", "/about")>>
    /\ failed_websites = <<Url("acme.com", "/about")>>
    /\ "info@acme.com" \in Range(ret[MainThread].emails)

\* the step of thread t is the return of extract_emails_and_social after crawl_page(url)
ReturnStep(t) == pc[t] = "dump" /\ pc'[t] = "done"

\* C32: when a crawl that passed the entry guard returns, whether a fetch failed in it
\* or not, its root is in completed_urls of the session record and of the session file,
\* and no address occurs twice in the e-mails it returns.
C32_RootMarkedOnReturn ==
    [][\A t \in Threads :
          ReturnStep(t)
              => /\ is_completed_in(session_data', root[t])
                 /\ session_file' # NoFile
                 /\ ~load_session_raises(session_file')
                 /\ is_completed_in(load_session(session_file'), root[t])
                 /\ \A i, j \in 1..Len(ret'[t].emails) :
                       ret'[t].emails[i] = ret'[t].emails[j] => i = j
                 /\ Range(ret'[t].emails) = emails[t]]_vars

\* C33: every crawl session terminates, whatever the link graph of the site (cycles
\* included) and whatever fetch fails; a fetch makes at most `retries` attempts and the
\* nesting of crawl_page never exceeds the page budget.
C33_CrawlTerminates ==
    /\ <>(pc[MainThread] = "done")
    /\ [](\A t \in Threads : requests[t] <= retries[t])
    /\ [](\A t \in Threads : Len(stack[t]) <= max_pages[t] + 1)

\* a crawl of the site on which /contact, /about and the root link to each other has
\* returned, after the fetch of a page failed
C33_Witness ==
    /\ pc[MainThread] = "done"
    /\ max_pages[MainThread] = 2
    /\ Rel("/") \in Range(web[ContactA].links)
    /\ ContactA \in Range(fetched[MainThread])
    /\ Url("acme.com", "/about") \in Range(fetched[MainThread])
    /\ failed_websites # <<>>

\* the pages of the session of thread t whose text was read, in the order of the
\* traversal
Processed(t) == SelectSeq(fetched[t], LAMBDA u : u \notin Range(failed_websites))

\* C34: the social links a crawl returns hold, for every platform, the first match of
\* the last page of the traversal on which the platform matched, with https:// in front
\* when the match has no scheme; a platform that matched on no page has no entry.
C34_LastPageWinsPerPlatform ==
    \A t \in Threads :
        (pc[t] = "done" /\ ~was_completed[t])
            => \A p \in Platforms :
                  LET pages == Processed(t)
                      hits == {i \in 1..Len(pages) :
                                 /\ p \in DOMAIN web[pages[i]].social
                                 /\ web[pages[i]].social[p] # <<>>}
                      last == CHOOSE i \in hits : \A h \in hits : h <= i
                      first_match == web[pages[last]].social[p][1]
                  IN IF hits = {} THEN p \notin DOMAIN ret[t].social_media
                     ELSE /\ p \in DOMAIN ret[t].social_media
                          /\ ret[t].social_media[p].rest = first_match.rest
                          /\ ret[t].social_media[p].scheme =
                                (IF first_match.scheme = "" THEN "https" ELSE first_match.scheme)

\* the root page and then /about were read: facebook is the first link of /about,
\* instagram the link of the root page, twitter the first of the two links of /about
C34_Witness ==
    /\ pc[MainThread] = "done"
    /\ Processed(MainThread) = <<RootA, Url("acme.com", "/about")>>
    /\ DOMAIN ret[MainThread].social_media = {"facebook", "instagram", "twitter"}
    /\ ret[MainThread].social_media["facebook"].rest = "www.facebook.com/acme.about"
    /\ ret[MainThread].social_media["instagram"].scheme = "http"
    /\ ret[MainThread].social_media["twitter"] = [scheme |-> "https", rest |-> "twitter.com/acme"]

\* C35: a crawl is deterministic: the site, the root, the budget and the outcomes of
\* the fetches fix the pages that are fetched, their order, and the bundle returned, so
\* that the e-mail sequence returned is the only one the session can return.
C35_CrawlDeterministic ==
    [][\A t \in Threads :
          ReturnStep(t)
              => /\ ret'[t].social_media = social_media[t]
                 /\ \A order \in ListsOf(emails[t]) : ret'[t].emails = order]_vars

\* C36: with a non-empty proxy list the cursor is an index of the list in every state,
\* the value a thread computed for it included, and every call returns an entry of the
\* list, however the calls of the threads interleave.
C36_CursorAlwaysValid ==
    proxies # <<>> =>
        /\ current_index \in 0..(Len(proxies) - 1)
        /\ \A t \in Threads :
              /\ next_index[t] \in 0..(Len(proxies) - 1)
              /\ mode[t] = "proxy" => proxy[t] \in Range(proxies)

\* three calls that overlapped have returned: each read the first entry of the list of
\* three, and the cursor was advanced once
C36_Witness ==
    /\ proxies = <<"p1", "p2", "p3">>
    /\ proxy_calls = 3
    /\ \A t \in Workers : pc[t] = "idle" /\ proxy[t] = "p1"
    /\ current_index = 1

\* the step of the loop of retry_failed_websites on a future that has returned
CollectStep ==
    /\ phase = "collect"
    /\ task[MainThread] <= Len(retry_futures)
    /\ retry_futures[task[MainThread]].state = "done"
    /\ task'[MainThread] # task[MainThread]

\* C37: when the loop of retry_failed_websites takes the value of a future, the records
\* of results are left as they are but for one, the first whose website is the site of
\* the future, and that one only when the future returned data: it gets the e-mails
\* appended and the status "Retry successful"; later records of the same website, and
\* all records when no website matches, are unchanged.
C37_OnlyFirstMatchModified ==
    [][CollectStep
          => LET f == retry_futures[task[MainThread]]
                 recovered == f.result.emails # <<>> \/ f.result.social_media # EmptyMap
                 matches == {k \in 1..Len(results) : results[k].website = f.site}
             IN /\ Len(results') = Len(results)
                /\ \A k \in 1..Len(results) :
                      IF recovered /\ k \in matches /\ \A m \in matches : k <= m
                      THEN /\ results'[k].website = f.site
                           /\ results'[k].emails = results[k].emails \o f.result.emails
                           /\ results'[k].status = "Retry successful"
                      ELSE results'[k] = results[k]]_vars

\* two listings have the website that was retried with success: the first record was
\* updated and the second was not
C37_Witness ==
    /\ phase = "end"
    /\ Len(results) = 3
    /\ results[1].website = results[2].website
    /\ results[1].status = "Retry successful"
    /\ results[2].status # "Retry successful"
    /\ \E i \in 1..Len(retry_futures) :
          retry_futures[i].site = results[2].website /\ retry_futures[i].result # EmptyBundle

\* C38: at most one scraping thread is running at any time; a start_scraping request
\* that reads the flag while a thread is running gets the 'already in progress' error,
\* and no request starts a thread while one is running, however the requests
\* interleave; and when a scraping thread ends, with or without an exception,
\* is_scraping is False.
C38_OneScraperAtATime ==
    /\ [](Cardinality(Running) <= 1)
    /\ [][\A h \in Handlers :
            /\ (handler[h].pc = "check" /\ handler'[h].pc # "check" /\ Running # {})
                  => /\ handler'[h].pc = "answered"
                     /\ handler'[h].response = AlreadyInProgress
            /\ (handler[h].pc = "start" /\ handler'[h].pc # "start") => Running = {}]_vars
    /\ [][\A i \in 1..Len(scraper_threads) :
            (scraper_threads[i] = "running" /\ scraper_threads'[i] # "running")
                => ~is_scraping']_vars

====
